---------------------------- MODULE Spec2Model ----------------------------
(***************************************************************************)
(* Model of marvin's sequencing pipeline:                                  *)
(*   - DependencyGraph (core/agents/sequence_planner.py): add_node,        *)
(*     add_edge, has_cycle, topological_sort;                              *)
(*   - SequencePlannerAgent.execute and its helpers;                       *)
(*   - GenerateTemplatesUseCase.execute (core/use_cases).                  *)
(*                                                                         *)
(* DependencyGraph.nodes is a dict (iterated in insertion order) whose     *)
(* values are sets of str.  The iteration order of a set of str is not     *)
(* fixed by the program (string hashing is randomised per process), so     *)
(* every operator that iterates such a set returns the SET of outcomes     *)
(* that some iteration order produces, and the actions choose among them.  *)
(***************************************************************************)
EXTENDS Integers, Sequences, FiniteSets, TLC

\* ------------------------------------------------------------------ bounds
MaxIds == 3          \* distinct ids a client of DependencyGraph uses
MaxEdges == 3        \* edges a client of DependencyGraph adds
MaxFeatures == 3     \* features in a document
MaxDeps == 3         \* dependency entries in a document, over all features

\* ------------------------------------------------------- general helpers
Range(s) == {s[i] : i \in 1..Len(s)}

Reverse(s) == [i \in 1..Len(s) |-> s[Len(s) + 1 - i]]

\* ------------------------------------------------------- DependencyGraph
\* A graph is [keys, adj]: keys is the insertion order of the dict
\* self.nodes, adj its mapping id -> set of ids (edge a -> b: a depends on b).
NewGraph == [keys |-> <<>>, adj |-> [x \in {} |-> {}]]

add_node(g, feature_id) ==
    IF feature_id \in DOMAIN g.adj
    THEN g
    ELSE [keys |-> Append(g.keys, feature_id),
          adj  |-> [x \in (DOMAIN g.adj) \cup {feature_id} |->
                       IF x = feature_id THEN {} ELSE g.adj[x]]]

\* add_edge that registers only the dependent as a node
add_edge_from_only(g, from_id, to_id) ==
    LET g2 == add_node(g, from_id)
    IN  [g2 EXCEPT !.adj[from_id] = @ \cup {to_id}]

add_edge(g, from_id, to_id) ==
    LET g2 == add_node(add_node(g, from_id), to_id)
    IN  [g2 EXCEPT !.adj[from_id] = @ \cup {to_id}]

Edges(g) == {e \in (DOMAIN g.adj) \X (UNION {g.adj[n] : n \in DOMAIN g.adj}) :
                e[2] \in g.adj[e[1]]}

\* has_cycle: the inner function is_cyclic(node) with the closure state
\* st = [visited, rec_stack]; the result is the set of [ret, visited,
\* rec_stack] that some iteration order of the neighbour sets produces.
RECURSIVE is_cyclic(_, _, _), is_cyclic_loop(_, _, _, _)
RECURSIVE is_cyclic_loop_visited(_, _, _, _)
is_cyclic(nodes, node, st) ==
    is_cyclic_loop(nodes, node, nodes[node],
                   [visited   |-> st.visited \cup {node},
                    rec_stack |-> st.rec_stack \cup {node}])

\* is_cyclic that takes every visited neighbour for a back edge
is_cyclic_loop_visited(nodes, node, todo, st) ==
    IF todo = {}
    THEN {[ret |-> FALSE, visited |-> st.visited,
           rec_stack |-> st.rec_stack \ {node}]}
    ELSE UNION {
           IF neighbor \notin st.visited
           THEN UNION {
                  IF r.ret
                  THEN {r}
                  ELSE is_cyclic_loop_visited(nodes, node, todo \ {neighbor},
                                              [visited |-> r.visited,
                                               rec_stack |-> r.rec_stack])
                  : r \in is_cyclic(nodes, neighbor, st)}
           ELSE {[ret |-> TRUE, visited |-> st.visited,
                  rec_stack |-> st.rec_stack]}
           : neighbor \in todo}

\* the "for neighbor in self.nodes[node]" loop with todo still to iterate
is_cyclic_loop(nodes, node, todo, st) ==
    IF todo = {}
    THEN {[ret |-> FALSE, visited |-> st.visited,
           rec_stack |-> st.rec_stack \ {node}]}
    ELSE UNION {
           IF neighbor \notin st.visited
           THEN UNION {
                  IF r.ret
                  THEN {r}
                  ELSE is_cyclic_loop(nodes, node, todo \ {neighbor},
                                      [visited |-> r.visited,
                                       rec_stack |-> r.rec_stack])
                  : r \in is_cyclic(nodes, neighbor, st)}
           ELSE IF neighbor \in st.rec_stack
           THEN {[ret |-> TRUE, visited |-> st.visited,
                  rec_stack |-> st.rec_stack]}
           ELSE is_cyclic_loop(nodes, node, todo \ {neighbor}, st)
           : neighbor \in todo}

\* the "for node in self.nodes" loop of has_cycle from position i
RECURSIVE has_cycle_loop(_, _, _)
has_cycle_loop(g, i, st) ==
    IF i > Len(g.keys)
    THEN {FALSE}
    ELSE IF g.keys[i] \in st.visited
    THEN has_cycle_loop(g, i + 1, st)
    ELSE UNION {
           IF r.ret
           THEN {TRUE}
           ELSE has_cycle_loop(g, i + 1, [visited |-> r.visited,
                                          rec_stack |-> r.rec_stack])
           : r \in is_cyclic(g.adj, g.keys[i], st)}

\* the set of values has_cycle() can return on g
has_cycle(g) == has_cycle_loop(g, 1, [visited |-> {}, rec_stack |-> {}])

\* topological_sort: the inner function dfs(node) with the closure state
\* st = [visited, result]; the result is the set of states some iteration
\* order produces.
RECURSIVE dfs(_, _, _), dfs_loop(_, _, _, _)
dfs(nodes, node, st) ==
    dfs_loop(nodes, node, nodes[node],
             [visited |-> st.visited \cup {node}, result |-> st.result])

dfs_loop(nodes, node, todo, st) ==
    IF todo = {}
    THEN {[visited |-> st.visited, result |-> Append(st.result, node)]}
    ELSE UNION {
           IF neighbor \notin st.visited
           THEN UNION {dfs_loop(nodes, node, todo \ {neighbor}, r)
                       : r \in dfs(nodes, neighbor, st)}
           ELSE dfs_loop(nodes, node, todo \ {neighbor}, st)
           : neighbor \in todo}

RECURSIVE sort_loop(_, _, _)
sort_loop(g, i, st) ==
    IF i > Len(g.keys)
    THEN {st.result}
    ELSE IF g.keys[i] \in st.visited
    THEN sort_loop(g, i + 1, st)
    ELSE UNION {sort_loop(g, i + 1, r) : r \in dfs(g.adj, g.keys[i], st)}

\* topological_sort without the has_cycle test
topological_sort_unchecked(g) ==
    {[raised |-> FALSE, result |-> Reverse(r)]
     : r \in sort_loop(g, 1, [visited |-> {}, result |-> <<>>])}

\* the outcomes of topological_sort() on g: ValueError or a list
topological_sort(g) ==
    {[raised |-> TRUE, result |-> <<>>] : c \in has_cycle(g) \cap {TRUE}}
    \cup
    UNION {{[raised |-> FALSE, result |-> Reverse(r)]
            : r \in sort_loop(g, 1, [visited |-> {}, result |-> <<>>])}
           : c \in has_cycle(g) \cap {FALSE}}

\* ------------------------------------------------- graph-theoretic facts
\* (what the claims compare the code with; not a model of any code)
RECURSIVE ReachableIn(_, _, _)
ReachableIn(g, frontier, k) ==
    IF k = 0 THEN frontier
    ELSE LET next == frontier \cup
                     UNION {g.adj[n] : n \in frontier \cap DOMAIN g.adj}
         IN  IF next = frontier THEN frontier ELSE ReachableIn(g, next, k - 1)

\* nodes reachable from n by one or more edges
Descendants(g, n) == ReachableIn(g, g.adj[n], Cardinality(DOMAIN g.adj) + 1)

HasDirectedCycle(g) == \E n \in DOMAIN g.adj : n \in Descendants(g, n)

IndexOf(s, x) == CHOOSE i \in 1..Len(s) : s[i] = x

\* ------------------------------------------------------------ Workflow
\* list.sort(key=...) is stable: x goes after every element whose key is
\* not larger.
RECURSIVE InsertByKey(_, _)
InsertByKey(sorted, x) ==
    IF sorted = <<>> THEN <<x>>
    ELSE IF x.sequence_number < sorted[Len(sorted)].sequence_number
    THEN Append(InsertByKey(SubSeq(sorted, 1, Len(sorted) - 1), x),
                sorted[Len(sorted)])
    ELSE Append(sorted, x)

RECURSIVE SortBySequenceNumber(_)
SortBySequenceNumber(s) ==
    IF s = <<>> THEN <<>>
    ELSE InsertByKey(SortBySequenceNumber(SubSeq(s, 1, Len(s) - 1)), s[Len(s)])

add_task_unsorted(tasks, task) == Append(tasks, task)

\* Workflow.add_task: append, then sort by sequence_number
add_task(tasks, task) == SortBySequenceNumber(Append(tasks, task))

\* ------------------------------------------------ SequencePlannerAgent
\* next((f for f in features if f.id == id), None): position of the first
\* feature with that id, 0 for None
RECURSIVE FindFeatureFrom(_, _, _)
FindFeatureFrom(fs, id, i) ==
    IF i > Len(fs) THEN 0
    ELSE IF fs[i].id = id THEN i
    ELSE FindFeatureFrom(fs, id, i + 1)

FindFeature(fs, id) == FindFeatureFrom(fs, id, 1)

TaskId(feature_id) == "task_" \o feature_id

\* _build_dependency_graph: add_node for every feature, then add_edge for
\* every dependency of every feature, in list order
RECURSIVE add_nodes_from(_, _, _)
add_nodes_from(g, fs, i) ==
    IF i > Len(fs) THEN g
    ELSE add_nodes_from(add_node(g, fs[i].id), fs, i + 1)

RECURSIVE add_edges_from(_, _, _, _)
add_edges_from(g, fs, i, j) ==
    IF i > Len(fs) THEN g
    ELSE IF j > Len(fs[i].dependencies) THEN add_edges_from(g, fs, i + 1, 1)
    ELSE add_edges_from(add_edge(g, fs[i].id, fs[i].dependencies[j]),
                        fs, i, j + 1)

build_dependency_graph(fs) ==
    add_edges_from(add_nodes_from(NewGraph, fs, 1), fs, 1, 1)

\* feature_priorities.get(id, 0)
PriorityOf(prio, id) == IF id \in DOMAIN prio THEN prio[id] ELSE 0

\* edge_priority that looks at the dependent only
edge_priority_from_only(prio, e) == PriorityOf(prio, e[1])

edge_priority(prio, e) == PriorityOf(prio, e[1]) + PriorityOf(prio, e[2])

\* the search with min_priority starting at 0 instead of infinity: no
\* edge is ever below it
edge_to_remove_from_zero(g, prio) ==
    {e \in Edges(g) : edge_priority(prio, e) < 0}

\* The edges the search of lines 222-231 can end with: the scan keeps the
\* first edge with the smallest edge_priority; from_id runs over the dict
\* in insertion order, to_id over a set in any order.
edge_to_remove(g, prio) ==
    LET edges == Edges(g)
        least == {e \in edges :
                    \A o \in edges : edge_priority(prio, e) <= edge_priority(prio, o)}
        first == {e \in least :
                    \A o \in least : IndexOf(g.keys, e[1]) <= IndexOf(g.keys, o[1])}
    IN  first

\* the removal that drops every edge of the dependent
remove_edge_all(g, e) == [g EXCEPT !.adj[e[1]] = {}]

\* working_graph.nodes[from_id].remove(to_id)
remove_edge(g, e) == [g EXCEPT !.adj[e[1]] = @ \ {e[2]}]

\* depends_on without the "if dep_feature" test
RECURSIVE depends_on_unfiltered(_, _, _)
depends_on_unfiltered(fs, deps, j) ==
    IF j > Len(deps) THEN <<>>
    ELSE <<TaskId(deps[j])>> \o depends_on_unfiltered(fs, deps, j + 1)

\* the depends_on list of a feature (lines 153-157)
RECURSIVE depends_on_from(_, _, _)
depends_on_from(fs, deps, j) ==
    IF j > Len(deps) THEN <<>>
    ELSE LET d == FindFeature(fs, deps[j])
             rest == depends_on_from(fs, deps, j + 1)
         IN  IF d # 0 THEN <<TaskId(fs[d].id)>> \o rest ELSE rest

\* the task loop with sequence_number counting the skipped ids too
RECURSIVE create_tasks_counting_skipped(_, _, _, _, _)
create_tasks_counting_skipped(fs, seq, i, sequence_number, tasks) ==
    IF i > Len(seq) THEN tasks
    ELSE LET k == FindFeature(fs, seq[i])
         IN  IF k = 0
             THEN create_tasks_counting_skipped(fs, seq, i + 1,
                                                sequence_number + 1, tasks)
             ELSE create_tasks_counting_skipped(fs, seq, i + 1,
                    sequence_number + 1,
                    add_task(tasks,
                      [task_id         |-> TaskId(fs[k].id),
                       sequence_number |-> sequence_number,
                       name            |-> "Implementiere " \o fs[k].title,
                       feature_id      |-> fs[k].id,
                       depends_on      |-> depends_on_from(fs, fs[k].dependencies, 1)]))

\* the task loop of execute (lines 146-173) from position i of the sequence
RECURSIVE create_tasks(_, _, _, _, _)
create_tasks(fs, seq, i, sequence_number, tasks) ==
    IF i > Len(seq) THEN tasks
    ELSE LET k == FindFeature(fs, seq[i])
         IN  IF k = 0
             THEN create_tasks(fs, seq, i + 1, sequence_number, tasks)
             ELSE create_tasks(fs, seq, i + 1, sequence_number + 1,
                    add_task(tasks,
                      [task_id         |-> TaskId(fs[k].id),
                       sequence_number |-> sequence_number,
                       name            |-> "Implementiere " \o fs[k].title,
                       feature_id      |-> fs[k].id,
                       depends_on      |-> depends_on_from(fs, fs[k].dependencies, 1)]))

\* =========================================================================
\* XMLTemplateGenerator (infrastructure/template_generator/xml_generator.py)
\*
\* Text is a sequence of symbols [k, v].  A symbol of kind "char" is a run of
\* character data; the markup of a template is kept as whole symbols: an
\* opening tag, a closing tag, the start of a tag up to the opening quote of
\* its first attribute, the text between two attribute values, and the end
\* of a tag after the closing quote of its last attribute.  A template also
\* holds symbols of kind "field", the {name} placeholders.
\* =========================================================================
MaxText == 1

\* the characters field values are made of: a plain one, the three that are
\* special in the markup, and the two the code splits on
Chars == {"a", "<", "&", "\"", ".", ":"}

Texts == UNION {[1..n -> Chars] : n \in 0..MaxText}

Plain == <<"a">>

Ch(c) == [k |-> "char", v |-> c]

Open(t) == [k |-> "open", v |-> t]

Close(t) == [k |-> "close", v |-> t]

AttrStart(t) == [k |-> "attr_start", v |-> t]

AttrNext(a) == [k |-> "attr_next", v |-> a]

AttrEndEmpty == [k |-> "attr_end_empty", v |-> ""]

AttrEndOpen == [k |-> "attr_end_open", v |-> ""]

XmlDecl == [k |-> "decl", v |-> ""]

Field(n) == [k |-> "field", v |-> n]

\* a str as text
Chs(text) == [i \in 1..Len(text) |-> Ch(text[i])]

\* s[:n]
FirstN(s, n) == SubSeq(s, 1, IF Len(s) < n THEN Len(s) ELSE n)

\* sep.join(texts)
RECURSIVE JoinFrom(_, _, _)
JoinFrom(sep, texts, i) ==
    IF i > Len(texts) THEN <<>>
    ELSE (IF i > 1 THEN <<Ch(sep)>> ELSE <<>>)
         \o Chs(texts[i]) \o JoinFrom(sep, texts, i + 1)

Join(sep, texts) == JoinFrom(sep, texts, 1)

\* the template of _load_template's else branch, one slot of each kind it
\* has: the slots generate_task_template supplies, slots only the extra
\* context supplies, a slot nothing supplies, slots in element content and
\* slots in attribute values
default_template ==
    <<XmlDecl, Open("CodingTask"),
      Open("TaskID"), Field("task_id"), Close("TaskID"),
      Open("SequenceNumber"), Field("sequence_number"), Close("SequenceNumber"),
      Open("DependsOn"), Field("depends_on"), Close("DependsOn"),
      Open("Author"), Field("author"), Close("Author"),
      AttrStart("Change"), Field("date"), AttrNext("author"), Field("author"),
          AttrEndEmpty,
      Open("ProjectName"), Field("project_name"), Close("ProjectName"),
      Open("ProjectDescription"), Field("project_description"),
          Close("ProjectDescription"),
      Open("BusinessDomain"), Field("business_domain"), Close("BusinessDomain"),
      Open("Assumptions"), Field("assumptions"), Close("Assumptions"),
      AttrStart("Risks"), Field("risk_mitigation"), AttrEndOpen, Field("risks"),
          Close("Risks"),
      Open("Constraints"), Field("constraints"), Close("Constraints"),
      Open("Languages"), Field("languages"), Close("Languages"),
      Open("Frameworks"), Field("frameworks"), Close("Frameworks"),
      Open("Pattern"), Field("architecture_pattern"), Close("Pattern"),
      Open("TaskName"), Field("task_name"), Close("TaskName"),
      Open("UserStories"), Field("user_stories"), Close("UserStories"),
      Open("Description"), Field("task_description"), Close("Description"),
      Open("Purpose"), Field("purpose"), Close("Purpose"),
      Open("Files"), Field("affected_files"), Close("Files"),
      Open("FunctionalRequirements"), Field("functional_requirements"),
          Close("FunctionalRequirements"),
      Open("AcceptanceCriteria"), Field("acceptance_criteria"),
          Close("AcceptanceCriteria"),
      Open("ExpectedTimeframe"), Field("expected_timeframe"),
          Close("ExpectedTimeframe"),
      Close("CodingTask")>>

\* what _load_template sets template_content to
load_template(template_path, exists, file_content) ==
    IF template_path # "" /\ exists THEN file_content ELSE default_template

\* a context is a function from placeholder names to text
EmptyContext == [n \in {} |-> <<>>]

\* context.update(d)
Update(context, d) ==
    [n \in DOMAIN context \cup DOMAIN d |->
        IF n \in DOMAIN d THEN d[n] ELSE context[n]]

\* description.split('.')[0] if '.' in description else description
RECURSIVE first_sentence_from(_, _)
first_sentence_from(description, i) ==
    IF i > Len(description) \/ description[i] = "." THEN <<>>
    ELSE <<description[i]>> \o first_sentence_from(description, i + 1)

first_sentence(description) == first_sentence_from(description, 1)

generate_user_stories(feature) ==
    <<AttrStart("Story")>> \o Chs(feature.id)
    \o <<Ch("_story_01"), AttrNext("role"), Ch("User"), AttrNext("goal"),
         Ch("to be able to ")>>
    \o Chs(feature.title)
    \o <<AttrNext("benefit"), Ch("to ")>>
    \o Chs(first_sentence(feature.description))
    \o <<AttrNext("acceptanceCriteria")>>
    \o (IF feature.requirements # <<>>
        THEN Join("; ", FirstN(feature.requirements, 3))
        ELSE <<Ch("TBD")>>)
    \o <<AttrEndEmpty>>

\* the technologies of one category, in list order
RECURSIVE of_category(_, _, _)
of_category(technologies, category, i) ==
    IF i > Len(technologies) THEN <<>>
    ELSE (IF technologies[i].category = category
          THEN <<technologies[i]>> ELSE <<>>)
         \o of_category(technologies, category, i + 1)

\* the loop of _generate_languages and _generate_frameworks; the whitespace
\* between two elements, and the strip() that removes it after the last one,
\* are not kept
RECURSIVE technology_elements(_, _, _)
technology_elements(tag, techs, i) ==
    IF i > Len(techs) THEN <<>>
    ELSE <<AttrStart(tag)>> \o Chs(techs[i].name) \o <<AttrNext("version")>>
         \o (IF techs[i].version # <<>> THEN Chs(techs[i].version)
             ELSE <<Ch("latest")>>)
         \o <<AttrEndEmpty>>
         \o technology_elements(tag, techs, i + 1)

generate_technologies(tag, category, codebase) ==
    LET techs == of_category(codebase.technologies, category, 1) IN
    IF techs = <<>>
    THEN <<AttrStart(tag), AttrNext("version"), AttrEndEmpty>>
    ELSE technology_elements(tag, techs, 1)

generate_languages(codebase) ==
    generate_technologies("Language", "language", codebase)

generate_frameworks(codebase) ==
    generate_technologies("Framework", "framework", codebase)

\* re.findall(r"{([^{}]+)}", template_content): the names of the slots
placeholders(template_content) ==
    {template_content[i].v :
        i \in {j \in 1..Len(template_content) :
                  template_content[j].k = "field"}}

fill_missing_placeholders_skipping(context, template_content) == context

fill_missing_placeholders(context, template_content) ==
    [n \in DOMAIN context \cup placeholders(template_content) |->
        IF n \in DOMAIN context THEN context[n] ELSE <<>>]

\* template_content.format(**context): raises KeyError for a slot whose name
\* is no key of the context, else replaces every slot by the value of its key
RECURSIVE format_from(_, _, _)
format_from(template_content, context, i) ==
    IF i > Len(template_content) THEN <<>>
    ELSE (IF template_content[i].k = "field"
          THEN context[template_content[i].v]
          ELSE <<template_content[i]>>)
         \o format_from(template_content, context, i + 1)

format(template_content, context) ==
    IF \E i \in 1..Len(template_content) :
          /\ template_content[i].k = "field"
          /\ template_content[i].v \notin DOMAIN context
    THEN [raised |-> "KeyError", text |-> <<>>]
    ELSE [raised |-> "none", text |-> format_from(template_content, context, 1)]

\* the context of generate_task_template before the missing slots are filled
supplied_context(task, feature, prd, codebase, additional_context, date) ==
    LET basic ==
            [task_id             |-> Chs(task.task_id),
             sequence_number     |-> <<Ch(ToString(task.sequence_number))>>,
             depends_on          |-> Join(",", task.depends_on),
             author              |-> Chs(prd.author),
             date                |-> <<Ch(date)>>,
             task_name           |-> Chs(task.name),
             task_description    |-> Chs(task.description),
             project_name        |-> Chs(prd.title),
             project_description |-> Chs(prd.description)]
        of_feature ==
            [purpose                 |-> Chs(feature.description),
             functional_requirements |-> Join("\n", feature.requirements),
             user_stories            |-> generate_user_stories(feature)]
        of_codebase ==
            [languages            |-> generate_languages(codebase),
             frameworks           |-> generate_frameworks(codebase),
             architecture_pattern |-> Join(", ", codebase.architecture_patterns)]
        context == Update(Update(additional_context, basic), of_feature)
    IN  IF codebase.present THEN Update(context, of_codebase) ELSE context

generate_task_template(template_content, task, feature, prd, codebase, additional_context, date) ==
    format(template_content,
           fill_missing_placeholders(
               supplied_context(task, feature, prd, codebase,
                                additional_context, date),
               template_content))

\* etree.fromstring with a non-recovering parser, as a machine reading one
\* symbol at a time.  stack holds the open elements, pending the element
\* whose start tag is being read inside an attribute value ("" in element
\* content), root_seen whether the document element has begun, at_start
\* whether nothing has been read, failed whether XMLSyntaxError is raised.
ParseStart ==
    [stack |-> <<>>, pending |-> "", root_seen |-> FALSE, at_start |-> TRUE,
     failed |-> FALSE]

parse_step(st, s) ==
    LET fail == [st EXCEPT !.failed = TRUE]
        go   == [st EXCEPT !.at_start = FALSE]
    IN
    IF st.failed THEN st
    ELSE IF st.pending # ""
    THEN CASE s.k = "char" ->
                 IF s.v \in {"<", "&", "\""} THEN fail ELSE go
           [] s.k = "attr_next" -> go
           [] s.k = "attr_end_empty" -> [go EXCEPT !.pending = ""]
           [] s.k = "attr_end_open" ->
                 [go EXCEPT !.pending = "",
                            !.stack = Append(st.stack, st.pending)]
           [] OTHER -> fail
    ELSE CASE s.k = "decl" -> IF st.at_start THEN go ELSE fail
           [] s.k = "open" ->
                 IF st.stack = <<>> /\ st.root_seen THEN fail
                 ELSE [go EXCEPT !.stack = Append(st.stack, s.v),
                                 !.root_seen = TRUE]
           [] s.k = "attr_start" ->
                 IF st.stack = <<>> /\ st.root_seen THEN fail
                 ELSE [go EXCEPT !.pending = s.v, !.root_seen = TRUE]
           [] s.k = "close" ->
                 IF st.stack # <<>> /\ st.stack[Len(st.stack)] = s.v
                 THEN [go EXCEPT !.stack = SubSeq(st.stack, 1,
                                                  Len(st.stack) - 1)]
                 ELSE fail
           [] s.k = "char" ->
                 IF s.v \in {"<", "&"} \/ st.stack = <<>> THEN fail ELSE go
           [] OTHER -> IF st.stack = <<>> THEN fail ELSE go

\* the machine run over x[lo..hi], by halves
RECURSIVE parse_range(_, _, _, _)
parse_range(x, st, lo, hi) ==
    IF lo > hi THEN st
    ELSE IF lo = hi THEN parse_step(st, x[lo])
    ELSE LET mid  == (lo + hi) \div 2
             left == parse_range(x, st, lo, mid)
         IN  IF left.failed THEN left
             ELSE parse_range(x, left, mid + 1, hi)

parse(xml_content) ==
    LET st == parse_range(xml_content, ParseStart, 1, Len(xml_content)) IN
    IF ~st.failed /\ st.stack = <<>> /\ st.pending = "" /\ st.root_seen
    THEN "ok" ELSE "error"

validate_xml(xml_content) ==
    IF parse(xml_content) = "ok"
    THEN [valid |-> TRUE, error |-> "None"]
    ELSE [valid |-> FALSE, error |-> "XMLSyntaxError"]

\* ---- TemplateGenerationAgent (core/agents/template_generation.py)
\* prd.title.split(":")[1]: the text between the first and the second colon
RECURSIVE until_colon(_, _)
until_colon(title, i) ==
    IF i > Len(title) \/ title[i] = ":" THEN <<>>
    ELSE <<title[i]>> \o until_colon(title, i + 1)

after_first_colon(title) ==
    LET c == CHOOSE i \in 1..Len(title) :
                 title[i] = ":" /\ \A j \in 1..(i - 1) : title[j] # ":"
    IN  until_colon(title, c + 1)

\* str.strip()
RECURSIVE strip(_)
strip(text) ==
    IF text = <<>> THEN text
    ELSE IF Head(text) = " " THEN strip(Tail(text))
    ELSE IF text[Len(text)] = " " THEN strip(SubSeq(text, 1, Len(text) - 1))
    ELSE text

RECURSIVE bullet_lines(_, _)
bullet_lines(requirements, i) ==
    IF i > Len(requirements) THEN <<>>
    ELSE (IF i > 1 THEN <<Ch("\n")>> ELSE <<>>)
         \o <<Ch("- ")>> \o Chs(requirements[i])
         \o bullet_lines(requirements, i + 1)

\* needle in haystack, for str
Contains(haystack, needle) ==
    \E i \in 0..(Len(haystack) - Len(needle)) :
        SubSeq(haystack, i + 1, i + Len(needle)) = needle

\* the paths of the components of one type whose name occurs in the feature
\* title (the texts of the model have no upper-case letter for lower() to
\* change)
RECURSIVE affected(_, _, _, _)
affected(components, type, title, i) ==
    IF i > Len(components) THEN <<>>
    ELSE (IF Contains(title, components[i].name) /\ components[i].type = type
          THEN <<components[i].path>> ELSE <<>>)
         \o affected(components, type, title, i + 1)

prepare_additional_context(task, feature, prd, codebase) ==
    LET business_domain ==
            IF \E i \in 1..Len(prd.title) : prd.title[i] = ":"
            THEN strip(after_first_colon(prd.title)) ELSE prd.title
        fixed ==
            [business_domain    |-> Chs(business_domain),
             assumptions        |-> <<Ch("Feature '")>> \o Chs(feature.title)
                                    \o <<Ch("' kann unabhaengig implementiert werden.")>>,
             risks              |-> <<Ch("Aenderungen an ")>> \o Chs(feature.title)
                                    \o <<Ch(" koennen andere Komponenten beeinflussen.")>>,
             risk_mitigation    |-> <<Ch("Umfangreiche Tests durchfuehren")>>,
             expected_timeframe |-> <<Ch("1-2 Tage")>>]
        of_codebase ==
            [affected_files   |->
                 Join(", ", FirstN(affected(codebase.components, "file",
                                            feature.title, 1), 5)),
             affected_folders |->
                 Join(", ", FirstN(affected(codebase.components, "directory",
                                            feature.title, 1), 3))]
        of_requirements ==
            [acceptance_criteria |-> bullet_lines(feature.requirements, 1)]
        c1 == IF codebase.present THEN Update(fixed, of_codebase) ELSE fixed
    IN  IF feature.requirements # <<>> THEN Update(c1, of_requirements) ELSE c1

\* ------------------------------------------------- state of the renderer
VARIABLES
    rpc,              \* what has been called on the generator so far
    template_path,    \* XMLTemplateGenerator.template_path ("" for None)
    path_exists,      \* what os.path.exists(template_path) answered
    template_content, \* XMLTemplateGenerator.template_content
    render_args,      \* the arguments of generate_task_template
    rendered,         \* what generate_task_template did
    validation,       \* what validate_xml returned
    agent_ret         \* what TemplateGenerationAgent.execute did

renderVars == <<rpc, template_path, path_exists, template_content,
                render_args, rendered, validation, agent_ret>>

NoArgs == [op |-> "none"]

NoRendered == [raised |-> "none", text |-> <<>>]

NoValidation == [valid |-> FALSE, error |-> "not called"]

NoAgentRet == [raised |-> "none", path |-> <<>>]

RenderIdle ==
    /\ rpc = "new"
    /\ template_path = ""
    /\ path_exists = FALSE
    /\ template_content = <<>>
    /\ render_args = NoArgs
    /\ rendered = NoRendered
    /\ validation = NoValidation
    /\ agent_ret = NoAgentRet

\* =========================================================================
\* DocumentAnalysisAgent (core/agents/document_analysis.py)
\*
\* A markdown document is kept as what the regular expressions of the agent
\* find in it: the data rows of its feature table with the number of columns
\* of the table, and the "###" blocks of its Features section.  A title or a
\* dependency entry is a sequence of words.
\* =========================================================================
\* str.lower() of a word
Lower(w) ==
    CASE w = "User" -> "user"
      [] w = "Login" -> "login"
      [] w = "Overview" -> "overview"
      [] w = "F1" -> "f1"
      [] w = "API" -> "api"
      [] OTHER -> w

LowerText(t) == [i \in 1..Len(t) |-> Lower(t[i])]

\* the slug of _generate_feature_id: lower case, white space to "_"
RECURSIVE slug_from(_, _)
slug_from(feature_name, i) ==
    IF i > Len(feature_name) THEN ""
    ELSE (IF i > 1 THEN "_" ELSE "") \o Lower(feature_name[i])
         \o slug_from(feature_name, i + 1)

generate_feature_id(feature_name, index) ==
    slug_from(feature_name, 1) \o "_"
    \o (IF index < 10 THEN "0" ELSE "") \o ToString(index)

\* ---- priority: a block states its priority in one of these forms
\*   "none"      nothing about priority
\*   "bold_in"   **Priority:** word
\*   "bold_out"  **Priority**: word
\*   "plain"     Priority: word
\*   "word"      ... word priority ...
NoPriority == [form |-> "none", word |-> ""]

\* _extract_priority: only the form **Priority:** is searched for
extract_priority(statement) ==
    IF statement.form = "bold_in"
    THEN CASE statement.word \in {"high", "p0"} -> 0
           [] statement.word \in {"medium", "p1"} -> 1
           [] statement.word \in {"low", "p2"} -> 2
           [] OTHER -> 0
    ELSE 0

\* str.title() of a word
Title(w) ==
    CASE w = "high" -> "High"
      [] w = "medium" -> "Medium"
      [] w = "low" -> "Low"
      [] w = "critical" -> "Critical"
      [] w = "must" -> "Must"
      [] w = "should" -> "Should"
      [] w = "could" -> "Could"
      [] w = "p0" -> "P0"
      [] w = "p1" -> "P1"
      [] w = "p2" -> "P2"
      [] OTHER -> w

\* _extract_priority_from_text: the patterns find the word of the forms
\* **Priority**:, Priority: and "word priority"; a word outside the list
\* falls through to the search for phrases, then to the default
extract_priority_from_text(statement) ==
    IF /\ statement.form \in {"bold_out", "plain", "word"}
       /\ Title(statement.word) \in
              {"High", "Medium", "Low", "Critical", "Must", "Should", "Could"}
    THEN Title(statement.word)
    ELSE IF statement.form # "none" /\ statement.word = "critical" THEN "High"
    ELSE "Medium"

convert_priority_to_int(priority_str) ==
    CASE priority_str \in {"High", "Critical", "Must Have", "Must"} -> 0
      [] priority_str \in {"Medium", "Should Have", "Should"} -> 1
      [] priority_str \in {"Low", "Could Have", "Could"} -> 2
      [] OTHER -> 0

\* ---- sections
SkippedTitle(title) == Contains(LowerText(title), <<"overview">>)

\* _extract_features: one feature per block, index = position of the block
RECURSIVE extract_features_from(_, _)
extract_features_from(sections, k) ==
    IF k > Len(sections) THEN <<>>
    ELSE <<[id           |-> generate_feature_id(sections[k].title, k - 1),
            title        |-> sections[k].title,
            dependencies |-> sections[k].dependencies,
            priority     |-> extract_priority(sections[k].priority)]>>
         \o extract_features_from(sections, k + 1)

extract_features(sections) == extract_features_from(sections, 1)

\* list(set(dependencies)): the distinct entries, in any order
Orders(dependencies) ==
    LET S == {dependencies[i] : i \in 1..Len(dependencies)} IN
    {s \in [1..Cardinality(S) -> S] : {s[i] : i \in 1..Cardinality(S)} = S}

\* _extract_features_from_sections: the set of lists it can return
RECURSIVE extract_features_from_sections_from(_, _)
extract_features_from_sections_from(sections, k) ==
    IF k > Len(sections) THEN {<<>>}
    ELSE LET rest == extract_features_from_sections_from(sections, k + 1) IN
         IF SkippedTitle(sections[k].title) THEN rest
         ELSE {<<[id           |-> generate_feature_id(sections[k].title, k - 1),
                  title        |-> sections[k].title,
                  dependencies |-> d,
                  priority     |-> convert_priority_to_int(
                                       extract_priority_from_text(
                                           sections[k].priority))]>> \o r :
                  d \in Orders(sections[k].dependencies), r \in rest}

extract_features_from_sections(sections) ==
    extract_features_from_sections_from(sections, 1)

\* ---- tables
\* a priority cell the Feature model accepts as an int
IntCells == {"0", "1", "2"}

to_int(cell) == CASE cell = "0" -> 0 [] cell = "1" -> 1 [] OTHER -> 2

\* the rows of one match of one pattern
RECURSIVE rows_features(_, _)
rows_features(rows, k) ==
    IF k > Len(rows) THEN <<>>
    ELSE <<[id           |-> IF rows[k].id # "" THEN rows[k].id
                             ELSE generate_feature_id(rows[k].name, k - 1),
            title        |-> rows[k].name,
            dependencies |-> rows[k].dependencies,
            priority     |-> to_int(rows[k].priority)]>>
         \o rows_features(rows, k + 1)

\* _extract_features_from_tables: table_pattern matches a table of seven or
\* more columns, simple_table_pattern one of six or more, and the rows of
\* every match are appended; Feature(priority=...) raises for a cell that
\* is no int
extract_features_from_tables(rows, columns) ==
    IF \E k \in 1..Len(rows) : rows[k].priority \notin IntCells
    THEN [raised |-> TRUE, features |-> <<>>]
    ELSE [raised |-> FALSE,
          features |-> (IF columns >= 7 THEN rows_features(rows, 1) ELSE <<>>)
                       \o (IF columns >= 6 THEN rows_features(rows, 1)
                           ELSE <<>>)]

\* _extract_features_enhanced: the set of outcomes
extract_features_enhanced(rows, columns, sections) ==
    LET table == extract_features_from_tables(rows, columns) IN
    IF table.raised THEN {table}
    ELSE IF table.features # <<>> THEN {table}
    ELSE {[raised |-> FALSE, features |-> fs] :
              fs \in extract_features_from_sections(sections)}

\* ---- _generate_dependency_graph
RECURSIVE first_match(_, _, _)
first_match(dependency, features, j) ==
    IF j > Len(features) THEN <<>>
    ELSE IF \/ Contains(LowerText(features[j].title), LowerText(dependency))
            \/ dependency = <<features[j].id>>
    THEN <<features[j].id>>
    ELSE first_match(dependency, features, j + 1)

RECURSIVE resolved(_, _, _)
resolved(dependencies, features, k) ==
    IF k > Len(dependencies) THEN <<>>
    ELSE first_match(dependencies[k], features, 1)
         \o resolved(dependencies, features, k + 1)

EmptyDependencyGraph == [id \in {} |-> <<>>]

RECURSIVE generate_dependency_graph_from(_, _, _)
generate_dependency_graph_from(features, i, graph_so_far) ==
    IF i > Len(features) THEN graph_so_far
    ELSE generate_dependency_graph_from(features, i + 1,
             [id \in DOMAIN graph_so_far \cup {features[i].id} |->
                 IF id = features[i].id
                 THEN resolved(features[i].dependencies, features, 1)
                 ELSE graph_so_far[id]])

generate_dependency_graph(features) ==
    generate_dependency_graph_from(features, 1, EmptyDependencyGraph)

\* ------------------------------------------------ state of the extractor
VARIABLES
    doc_rows,             \* the data rows of the feature table of the document
    doc_columns,          \* the number of columns of that table
    doc_sections,         \* the ### blocks of the Features section
    epc,                  \* "reading" the document, or "analyzed"
    analysis_path,        \* which of _analyze_markdown_* returned
    extracted_features,   \* the feature list execute returned
    prd_dependency_graph  \* prd.dependency_graph of the PRD it returned

extractVars == <<doc_rows, doc_columns, doc_sections, epc, analysis_path,
                 extracted_features, prd_dependency_graph>>

ExtractIdle ==
    /\ doc_rows = <<>>
    /\ doc_columns = 0
    /\ doc_sections = <<>>
    /\ epc = "reading"
    /\ analysis_path = "none"
    /\ extracted_features = <<>>
    /\ prd_dependency_graph = EmptyDependencyGraph

\* =========================================================================
\* The ADK sequence planner (adapters/adk_agents/sequence_planner_adk.py)
\* =========================================================================
\* keyword in description.lower(), for a description kept as words
mentions_keyword(description) ==
    \E i \in 1..Len(description) :
        Lower(description[i]) \in {"integration", "api", "security", "performance"}

calculate_complexity_score_uncapped(feature) ==
    Len(feature.requirements) + Len(feature.dependencies) * 2
    + (IF feature.priority = 0 THEN 3 ELSE IF feature.priority = 1 THEN 2 ELSE 0)
    + (IF mentions_keyword(feature.description) THEN 2 ELSE 0)

calculate_complexity_score(feature) ==
    LET by_requirements == 0 + Len(feature.requirements)
        by_dependencies == by_requirements + Len(feature.dependencies) * 2
        by_priority ==
            IF feature.priority = 0 THEN by_dependencies + 3
            ELSE IF feature.priority = 1 THEN by_dependencies + 2
            ELSE by_dependencies
        score ==
            IF mentions_keyword(feature.description) THEN by_priority + 2
            ELSE by_priority
    IN  IF score < 10 THEN score ELSE 10

\* name_to_id.get(dep_name, dep_name): the id of the last feature of that
\* name, the name itself where no feature has it
RECURSIVE name_to_id(_, _, _)
name_to_id(fs, dep_name, i) ==
    IF i = 0 THEN dep_name
    ELSE IF fs[i].name = dep_name THEN fs[i].id
    ELSE name_to_id(fs, dep_name, i - 1)

\* the dependency_graph analyze_feature_dependencies builds (ids are unique,
\* so its keys in insertion order are the ids in feature order)
adk_dependency_graph(fs) ==
    [id \in {fs[i].id : i \in 1..Len(fs)} |->
        LET feature == fs[CHOOSE i \in 1..Len(fs) :
                              fs[i].id = id /\ \A j \in (i + 1)..Len(fs) :
                                                   fs[j].id # id]
        IN  [name               |-> feature.name,
             dependencies       |->
                 [k \in 1..Len(feature.dependencies) |->
                     name_to_id(fs, feature.dependencies[k], Len(fs))],
             requirements_count |-> Len(feature.requirements),
             complexity         |-> calculate_complexity_score(feature)]]

\* the in-degrees _topological_sort starts from
initial_in_degree(g) == [node \in DOMAIN g |-> Len(g[node].dependencies)]

\* [node for node, degree in in_degree.items() if degree == 0]
RECURSIVE free_nodes(_, _, _)
free_nodes(degrees, keys, i) ==
    IF i > Len(keys) THEN <<>>
    ELSE (IF degrees[keys[i]] = 0 THEN <<keys[i]>> ELSE <<>>)
         \o free_nodes(degrees, keys, i + 1)

\* queue.sort(key=complexity): stable insertion by ascending complexity
RECURSIVE insert_by_complexity(_, _, _)
insert_by_complexity(g, sorted, node) ==
    IF sorted = <<>> THEN <<node>>
    ELSE IF g[Head(sorted)].complexity <= g[node].complexity
    THEN <<Head(sorted)>> \o insert_by_complexity(g, Tail(sorted), node)
    ELSE <<node>> \o sorted

RECURSIVE sort_by_complexity_from(_, _, _)
sort_by_complexity_from(g, queue, i) ==
    IF i = 0 THEN <<>>
    ELSE insert_by_complexity(g, sort_by_complexity_from(g, queue, i - 1),
                              queue[i])

sort_by_complexity(g, queue) == sort_by_complexity_from(g, queue, Len(queue))

\* current in dependency_graph[node]["dependencies"]
depends_directly(g, node, current) ==
    \E k \in 1..Len(g[node].dependencies) : g[node].dependencies[k] = current

\* the in-degrees after current is emitted
lowered_in_degree(g, degrees, current) ==
    [node \in DOMAIN degrees |->
        IF depends_directly(g, node, current) THEN degrees[node] - 1
        ELSE degrees[node]]

\* the nodes the pass appends to the queue, in the order of the graph's keys
RECURSIVE freed_nodes(_, _, _, _, _)
freed_nodes(g, degrees, current, keys, i) ==
    IF i > Len(keys) THEN <<>>
    ELSE (IF /\ depends_directly(g, keys[i], current)
             /\ lowered_in_degree(g, degrees, current)[keys[i]] = 0
          THEN <<keys[i]>> ELSE <<>>)
         \o freed_nodes(g, degrees, current, keys, i + 1)

\* ------------------------------------------- state of the ADK planner tool
VARIABLES
    adk_features,   \* the features of features_data
    adk_keys,       \* the keys of dependency_graph in insertion order
    adk_graph,      \* dependency_graph
    in_degree,      \* _topological_sort: in_degree
    queue,          \* _topological_sort: queue
    adk_result,     \* _topological_sort: result
    apc             \* "input", "sorting" or "done"

adkVars == <<adk_features, adk_keys, adk_graph, in_degree, queue, adk_result,
             apc>>

NoAdkGraph == [id \in {} |-> 0]

AdkIdle ==
    /\ adk_features = <<>>
    /\ adk_keys = <<>>
    /\ adk_graph = NoAdkGraph
    /\ in_degree = NoAdkGraph
    /\ queue = <<>>
    /\ adk_result = <<>>
    /\ apc = "input"

\* =========================================================================
\* DocumentAnalysisAgent.execute on a file (core/agents/document_analysis.py)
\* =========================================================================
\* Path(document_path).suffix.lower()
lower_suffix(suffix) ==
    CASE suffix = ".MD" -> ".md"
      [] suffix = ".PDF" -> ".pdf"
      [] OTHER -> suffix

\* the first line of a kind, 0 where there is none
first_line(lines, kind) ==
    IF \E i \in 1..Len(lines) : lines[i].kind = kind
    THEN CHOOSE i \in 1..Len(lines) :
             /\ lines[i].kind = kind
             /\ \A j \in 1..(i - 1) : lines[j].kind # kind
    ELSE 0

\* _extract_title: the "# PRD: ..." pattern is searched over the whole
\* content before the pattern for any H1 heading
extract_title(lines) ==
    IF first_line(lines, "h1_prd") # 0
    THEN lines[first_line(lines, "h1_prd")].text
    ELSE IF first_line(lines, "h1") # 0
    THEN lines[first_line(lines, "h1")].text
    ELSE "Unknown PRD"

extract_version(lines) ==
    IF first_line(lines, "version") # 0
    THEN lines[first_line(lines, "version")].text
    ELSE "0.0.0"

extract_author(lines) ==
    IF first_line(lines, "author") # 0
    THEN lines[first_line(lines, "author")].text
    ELSE "Unknown"

\* the ### blocks of the first "## Features" section: the ### lines after
\* its heading, up to the next ## heading
RECURSIVE feature_sections_from(_, _)
feature_sections_from(lines, i) ==
    IF i > Len(lines) \/ lines[i].kind = "features" THEN <<>>
    ELSE (IF lines[i].kind = "h3"
          THEN <<[title        |-> <<lines[i].text>>,
                  priority     |-> NoPriority,
                  dependencies |-> <<>>]>>
          ELSE <<>>)
         \o feature_sections_from(lines, i + 1)

feature_sections(lines) ==
    IF first_line(lines, "features") = 0 THEN <<>>
    ELSE feature_sections_from(lines, first_line(lines, "features") + 1)

\* the lines the front matter block is when it is read as content
front_matter_lines(front_matter) ==
    IF front_matter = "none" THEN <<>>
    ELSE <<[kind |-> "text", text |-> "---"]>>

\* _analyze_markdown_basic on the whole content
analyze_markdown_basic(file) ==
    LET content == front_matter_lines(file.front_matter) \o file.lines IN
    [raised   |-> "none",
     path     |-> "basic",
     title    |-> extract_title(content),
     version  |-> extract_version(content),
     author   |-> extract_author(content),
     features |-> extract_features(feature_sections(content))]

\* _analyze_markdown_enhanced: the outcomes (one per order of a set), the
\* basic analysis where frontmatter.loads or a later step raised
analyze_markdown_enhanced(file) ==
    IF file.front_matter = "malformed" THEN {analyze_markdown_basic(file)}
    ELSE {IF enhanced.raised THEN analyze_markdown_basic(file)
          ELSE [raised   |-> "none",
                path     |-> "enhanced",
                title    |-> IF file.front_matter = "titled" THEN "Front"
                             ELSE extract_title(file.lines),
                version  |-> extract_version(file.lines),
                author   |-> extract_author(file.lines),
                features |-> enhanced.features] :
             enhanced \in extract_features_enhanced(
                              <<>>, 0, feature_sections(file.lines))}

Raised(exception) ==
    [raised |-> exception, path |-> "none", title |-> "", version |-> "",
     author |-> "", features |-> <<>>]

\* _analyze_markdown: open(document_path, encoding="utf-8").read(), then the
\* enhanced analysis where its libraries are installed
analyze_markdown(file, ENHANCED_PARSING_AVAILABLE) ==
    IF ~file.utf8 THEN {Raised("UnicodeDecodeError")}
    ELSE IF ENHANCED_PARSING_AVAILABLE THEN analyze_markdown_enhanced(file)
    ELSE {analyze_markdown_basic(file)}

\* execute: what it returns or raises, one outcome per order of a set
execute(file, ENHANCED_PARSING_AVAILABLE) ==
    IF ~file.exists THEN {Raised("FileNotFoundError")}
    ELSE IF lower_suffix(file.suffix) = ".md"
    THEN analyze_markdown(file, ENHANCED_PARSING_AVAILABLE)
    ELSE IF lower_suffix(file.suffix) \in {".docx", ".doc", ".pdf"}
    THEN {Raised("NotImplementedError")}
    ELSE {Raised("ValueError")}

\* =========================================================================
\* _detect_circular_dependencies (adapters/adk_agents/sequence_planner_adk.py)
\* =========================================================================
\* what the closure has_cycle shares between its calls, and whether
\* path.index raised ValueError
DetectStart ==
    [visited |-> {}, rec_stack |-> {}, circular_deps |-> <<>>,
     found |-> FALSE, raised |-> FALSE]

\* path[cycle_start:] + [node]
cycle_from(path, node) ==
    LET cycle_start == IndexOf(path, node)
    IN  SubSeq(path, cycle_start, Len(path)) \o <<node>>

\* has_cycle(node, path) and its loop over the dependencies from the k-th on;
\* found is the value returned
RECURSIVE adk_has_cycle(_, _, _, _), adk_has_cycle_loop(_, _, _, _, _)
adk_has_cycle(g, node, path, st) ==
    IF node \in st.rec_stack
    THEN IF \E i \in 1..Len(path) : path[i] = node
         THEN [st EXCEPT !.circular_deps = Append(@, cycle_from(path, node)),
                         !.found = TRUE]
         ELSE [st EXCEPT !.raised = TRUE]
    ELSE IF node \in st.visited THEN [st EXCEPT !.found = FALSE]
    ELSE adk_has_cycle_loop(g, node, Append(path, node),
             [st EXCEPT !.visited = @ \cup {node},
                        !.rec_stack = @ \cup {node}], 1)

adk_has_cycle_loop(g, node, path, st, k) ==
    IF k > Len(g[node].dependencies)
    THEN [st EXCEPT !.rec_stack = @ \ {node}, !.found = FALSE]
    ELSE LET neighbor == g[node].dependencies[k] IN
         IF neighbor \notin DOMAIN g
         THEN adk_has_cycle_loop(g, node, path, st, k + 1)
         ELSE LET below == adk_has_cycle(g, neighbor, path, st) IN
              IF below.raised \/ below.found THEN below
              ELSE adk_has_cycle_loop(g, node, path, below, k + 1)

\* for node in dependency_graph: if node not in visited: has_cycle(node, [])
RECURSIVE detect_from(_, _, _, _)
detect_from(g, keys, i, st) ==
    IF i > Len(keys) \/ st.raised THEN st
    ELSE IF keys[i] \in st.visited THEN detect_from(g, keys, i + 1, st)
    ELSE detect_from(g, keys, i + 1, adk_has_cycle(g, keys[i], <<>>, st))

detect_circular_dependencies(g, keys) == detect_from(g, keys, 1, DetectStart)

\* =========================================================================
\* TaskSequence and TaskSequencer (core/domain/entities/task.py,
\* core/domain/services/task_sequencer.py)
\* =========================================================================
\* next((t for t in self.tasks if t.id == task_id), None): its position, 0
\* for None
RECURSIVE find_task(_, _, _)
find_task(tasks, task_id, i) ==
    IF i > Len(tasks) THEN 0
    ELSE IF tasks[i].id = task_id THEN i
    ELSE find_task(tasks, task_id, i + 1)

\* visit(task_id) of _update_execution_order and its loop over the
\* prerequisites from the k-th on; st holds visited and order
RECURSIVE visit(_, _, _), visit_prerequisites(_, _, _, _)
visit(tasks, task_id, st) ==
    IF task_id \in st.visited THEN st
    ELSE LET seen == [st EXCEPT !.visited = @ \cup {task_id}]
             at   == find_task(tasks, task_id, 1)
         IN  IF at = 0 THEN seen
             ELSE LET after == visit_prerequisites(tasks, tasks[at].prerequisites,
                                                   1, seen)
                  IN  [after EXCEPT !.order = Append(@, task_id)]

visit_prerequisites(tasks, prerequisites, k, st) ==
    IF k > Len(prerequisites) THEN st
    ELSE visit_prerequisites(tasks, prerequisites, k + 1,
                             visit(tasks, prerequisites[k], st))

RECURSIVE visit_all(_, _, _)
visit_all(tasks, i, st) ==
    IF i > Len(tasks) THEN st
    ELSE visit_all(tasks, i + 1, visit(tasks, tasks[i].id, st))

\* TaskSequence._update_execution_order: the new execution_order
update_execution_order(tasks) ==
    visit_all(tasks, 1, [visited |-> {}, order |-> <<>>]).order

EmptySequence == [tasks |-> <<>>, execution_order |-> <<>>]

\* TaskSequence.add_task
sequence_add_task(sequence, task) ==
    LET tasks == Append(sequence.tasks, task)
    IN  [tasks |-> tasks, execution_order |-> update_execution_order(tasks)]

\* the id uuid4() gives the i-th TaskDefinition
Uuid(i) == "u" \o ToString(i)

\* task_map after the first loop: the task stored last under a key, 0 where
\* the key is absent
RECURSIVE task_map_get(_, _, _)
task_map_get(ai_tasks, dep_id, i) ==
    IF i = 0 THEN 0
    ELSE IF ai_tasks[i].task_id = dep_id THEN i
    ELSE task_map_get(ai_tasks, dep_id, i - 1)

\* the prerequisites the second loop appends to the task of ai_task
RECURSIVE prerequisites_of(_, _, _)
prerequisites_of(ai_tasks, dep_ids, k) ==
    IF k > Len(dep_ids) THEN <<>>
    ELSE LET dep_task == task_map_get(ai_tasks, dep_ids[k], Len(ai_tasks))
         IN  (IF dep_task # 0 THEN <<Uuid(dep_task)>> ELSE <<>>)
             \o prerequisites_of(ai_tasks, dep_ids, k + 1)

\* the first loop: one add_task per AI task, its prerequisites still empty
RECURSIVE add_ai_tasks(_, _, _)
add_ai_tasks(sequence, ai_tasks, i) ==
    IF i > Len(ai_tasks) THEN sequence
    ELSE add_ai_tasks(
             sequence_add_task(sequence,
                               [id |-> Uuid(i), prerequisites |-> <<>>]),
             ai_tasks, i + 1)

\* TaskSequencer.create_from_ai_result
create_from_ai_result(ai_tasks) ==
    LET sequence == add_ai_tasks(EmptySequence, ai_tasks, 1)
    IN  [sequence EXCEPT !.tasks =
            [i \in 1..Len(ai_tasks) |->
                [sequence.tasks[i] EXCEPT !.prerequisites =
                    @ \o prerequisites_of(ai_tasks, ai_tasks[i].dependencies, 1)]]]

\* all(prereq in completed_task_ids for prereq in task.prerequisites)
prerequisites_completed(task, completed_task_ids) ==
    \A k \in 1..Len(task.prerequisites) :
        task.prerequisites[k] \in completed_task_ids

get_next_tasks_any(tasks, completed_task_ids, i) == tasks

\* TaskSequence.get_next_tasks, from the i-th task on
RECURSIVE get_next_tasks(_, _, _)
get_next_tasks(tasks, completed_task_ids, i) ==
    IF i > Len(tasks) THEN <<>>
    ELSE (IF /\ tasks[i].id \notin completed_task_ids
             /\ prerequisites_completed(tasks[i], completed_task_ids)
          THEN <<tasks[i]>> ELSE <<>>)
         \o get_next_tasks(tasks, completed_task_ids, i + 1)

\* =========================================================================
\* generate_task_template and the caller's additional_context object
\* =========================================================================
\* the additional_context object of the caller after generate_task_template:
\* "additional_context or {}" is the caller's own dict unless it is empty, and
\* update / _fill_missing_placeholders write into it
additional_context_after(content, task, feature, prd, codebase, additional_context, date) ==
    IF additional_context = EmptyContext THEN additional_context
    ELSE fill_missing_placeholders(
             supplied_context(task, feature, prd, codebase,
                              additional_context, date),
             content)

\* =========================================================================
\* _organize_features_into_phases (adapters/adk_agents/marvin_orchestrator_adk.py)
\* =========================================================================
\* list.remove(x): the list without its first element equal to x
RECURSIVE remove_first(_, _)
remove_first(list, x) ==
    IF list = <<>> THEN <<>>
    ELSE IF Head(list) = x THEN Tail(list)
    ELSE <<Head(list)>> \o remove_first(Tail(list), x)

dependencies_resolved_always(feature, implemented_features) == TRUE

\* dependencies.issubset(implemented_features) or not dependencies
dependencies_resolved(feature, implemented_features) ==
    LET dependencies == {feature.dependencies[k] :
                             k \in 1..Len(feature.dependencies)}
    IN  dependencies \subseteq implemented_features \/ dependencies = {}

\* the for loop over remaining_features.copy(), from the i-th feature on
RECURSIVE collect_phase(_, _, _)
collect_phase(copy, i, st) ==
    IF i > Len(copy) THEN st
    ELSE collect_phase(copy, i + 1,
             IF dependencies_resolved(copy[i], st.implemented_features)
             THEN [current_phase        |-> Append(st.current_phase, copy[i]),
                   remaining_features   |->
                       remove_first(st.remaining_features, copy[i]),
                   implemented_features |->
                       st.implemented_features \cup {copy[i].name}]
             ELSE st)

\* min(remaining_features, key=len(requirements)): the first of the least
simplest_of(remaining_features) ==
    remaining_features[
        CHOOSE i \in 1..Len(remaining_features) :
            /\ \A j \in 1..Len(remaining_features) :
                  Len(remaining_features[i].requirements)
                      <= Len(remaining_features[j].requirements)
            /\ \A j \in 1..(i - 1) :
                  Len(remaining_features[j].requirements)
                      > Len(remaining_features[i].requirements)]

\* one pass of "while remaining_features": the phase it appends, what is
\* left, and whether the phase was forced
organize_pass(remaining_features, implemented_features) ==
    LET found == collect_phase(remaining_features, 1,
                     [current_phase        |-> <<>>,
                      remaining_features   |-> remaining_features,
                      implemented_features |-> implemented_features])
    IN  IF found.current_phase = <<>> /\ found.remaining_features # <<>>
        THEN LET simplest == simplest_of(found.remaining_features) IN
             [current_phase        |-> <<simplest>>,
              remaining_features   |->
                  remove_first(found.remaining_features, simplest),
              implemented_features |->
                  found.implemented_features \cup {simplest.name},
              forced               |-> TRUE]
        ELSE [current_phase        |-> found.current_phase,
              remaining_features   |-> found.remaining_features,
              implemented_features |-> found.implemented_features,
              forced               |-> FALSE]

\* --------------------------------------- state of a call of execute on a file
VARIABLES
    file,        \* the document at document_path
    exec_ret,    \* what execute returned or raised
    xpc          \* "writing", "written" or "done"

execVars == <<file, exec_ret, xpc>>

NoFile ==
    [exists |-> FALSE, suffix |-> "", utf8 |-> TRUE, front_matter |-> "none",
     lines |-> <<>>]

NoExecRet == Raised("not called")

ExecIdle ==
    /\ file = NoFile
    /\ exec_ret = NoExecRet
    /\ xpc = "writing"

\* ------------------------------------------ state of a client of a Workflow
VARIABLES
    workflow_tasks,   \* workflow.tasks
    added_tasks       \* the tasks handed to add_task so far, in call order

workflowVars == <<workflow_tasks, added_tasks>>

WorkflowIdle ==
    /\ workflow_tasks = <<>>
    /\ added_tasks = <<>>

\* ----------------------------------- what analyze_feature_dependencies found
VARIABLES
    circular_dependencies   \* circular_deps: the cycles, each a path of ids

detectVars == <<circular_dependencies>>

DetectIdle == circular_dependencies = <<>>

\* ------------------------------ state of a caller of the TaskSequencer
VARIABLES
    ai_tasks,             \* the AI tasks handed to create_from_ai_result
    sequence,             \* the TaskSequence it returned
    completed_task_ids,   \* the tasks the caller has marked as completed
    next_tasks,           \* what get_next_tasks returned last
    spc                   \* "input", "created" or "offered"

sequenceVars == <<ai_tasks, sequence, completed_task_ids, next_tasks, spc>>

SequenceIdle ==
    /\ ai_tasks = <<>>
    /\ sequence = EmptySequence
    /\ completed_task_ids = {}
    /\ next_tasks = <<>>
    /\ spc = "input"

\* ------------------- state of a caller rendering tasks with one extra context
VARIABLES
    caller_context,     \* the caller's additional_context object
    original_context,   \* what the caller put into it
    shared_rendered,    \* the last template rendered with the caller's object
    alone_rendered,     \* the same call with a fresh copy of original_context
    renders             \* the number of calls so far

contextVars == <<caller_context, original_context, shared_rendered,
                 alone_rendered, renders>>

ContextIdle ==
    /\ caller_context = EmptyContext
    /\ original_context = EmptyContext
    /\ shared_rendered = NoRendered
    /\ alone_rendered = NoRendered
    /\ renders = 0

\* --------------------------- state of a call of _organize_features_into_phases
VARIABLES
    phase_features,         \* features, the argument
    remaining_features,     \* remaining_features
    implemented_features,   \* implemented_features
    phases,                 \* phases
    forced_features,        \* the names of the features added to break a deadlock
    ppc                     \* "input", "organizing" or "done"

phaseVars == <<phase_features, remaining_features, implemented_features,
               phases, forced_features, ppc>>

PhaseIdle ==
    /\ phase_features = <<>>
    /\ remaining_features = <<>>
    /\ implemented_features = {}
    /\ phases = <<>>
    /\ forced_features = {}
    /\ ppc = "input"

lateVars == <<execVars, workflowVars, detectVars, sequenceVars, contextVars,
              phaseVars>>

LateIdle ==
    /\ ExecIdle /\ WorkflowIdle /\ DetectIdle
    /\ SequenceIdle /\ ContextIdle /\ PhaseIdle

\* =========================================================================
\* State
\* =========================================================================
VARIABLES
    graph,              \* a DependencyGraph object used directly by a client
    ret,                \* the last call on it and what it returned
    features,           \* the feature list of the document (extraction result)
    caller,             \* who runs the planner: "use_case" or "direct"
    prd_features,       \* prd.features of the PRD handed to the planner
    pc,                 \* position in execute
    dependency_graph,   \* execute: dependency_graph
    working_graph,      \* _resolve_cyclic_dependencies: working_graph
    feature_priorities, \* _resolve_cyclic_dependencies: feature_priorities
    removed_edges,      \* _resolve_cyclic_dependencies: removed_edges
    feature_sequence,   \* execute: feature_sequence
    tasks,              \* workflow.tasks of the returned workflow
    template_paths      \* GenerateTemplatesUseCase.execute: template_paths

graphVars == <<graph, ret>>
planVars == <<features, caller, prd_features, pc, dependency_graph,
              working_graph, feature_priorities, removed_edges,
              feature_sequence, tasks, template_paths>>
\* the variables of the other sub-systems
restVars == <<renderVars, extractVars, adkVars, lateVars>>

vars == <<graphVars, planVars, restVars>>

\* ------------------------------------------------------------- inputs
FeatureId(i) == "f" \o ToString(i)

FeatureTitle(i) == "n" \o ToString(i)

Ids == {FeatureId(i) : i \in 1..MaxIds}

\* what a dependency entry can hold: a feature id, or a feature title (the
\* markdown extractor records the text of the "Dependencies:" line); ids and
\* titles beyond the length of the list match no feature
Tokens == {FeatureId(i) : i \in 1..MaxFeatures} \cup
          {FeatureTitle(i) : i \in 1..MaxFeatures}

Priorities == 0..2

NoRet == [op |-> "none"]

NoPriorities == [x \in {} |-> 0]

GraphIdle == graph = NewGraph /\ ret = NoRet

PlanIdle ==
    /\ features = <<>>
    /\ caller = "none"
    /\ prd_features = <<>>
    /\ pc = "idle"
    /\ dependency_graph = NewGraph
    /\ working_graph = NewGraph
    /\ feature_priorities = NoPriorities
    /\ removed_edges = <<>>
    /\ feature_sequence = <<>>
    /\ tasks = <<>>
    /\ template_paths = <<>>

RestIdle == RenderIdle /\ ExtractIdle /\ AdkIdle /\ LateIdle

\* =========================================================================
\* What the actions of each component leave alone
\* =========================================================================
earlyVars == <<graphVars, planVars, renderVars, extractVars, adkVars>>

adkFrame == <<graphVars, planVars, renderVars, extractVars, execVars,
              workflowVars, sequenceVars, contextVars, phaseVars>>

execFrame == <<earlyVars, workflowVars, detectVars, sequenceVars,
               contextVars, phaseVars>>

workflowFrame == <<earlyVars, execVars, detectVars, sequenceVars,
                   contextVars, phaseVars>>

sequenceFrame == <<earlyVars, execVars, workflowVars, detectVars,
                   contextVars, phaseVars>>

contextFrame == <<earlyVars, execVars, workflowVars, detectVars,
                  sequenceVars, phaseVars>>

phaseFrame == <<earlyVars, execVars, workflowVars, detectVars, sequenceVars,
                contextVars>>

\* =========================================================================
\* A client using a DependencyGraph object
\* =========================================================================
InitGraph == GraphIdle /\ PlanIdle /\ RestIdle

AddNode(id) ==
    /\ graph' = add_node(graph, id)
    /\ ret' = [op |-> "add_node"]
    /\ UNCHANGED <<planVars, restVars>>

AddEdge(a, b) ==
    /\ \/ <<a, b>> \in Edges(graph)
       \/ Cardinality(Edges(graph)) < MaxEdges
    /\ graph' = add_edge(graph, a, b)
    /\ ret' = [op |-> "add_edge"]
    /\ UNCHANGED <<planVars, restVars>>

HasCycle ==
    /\ \E r \in has_cycle(graph) : ret' = [op |-> "has_cycle", value |-> r]
    /\ UNCHANGED <<graph, planVars, restVars>>

TopologicalSort ==
    /\ \E r \in topological_sort(graph) :
          ret' = [op |-> "topological_sort", raised |-> r.raised,
                  value |-> r.result]
    /\ UNCHANGED <<graph, planVars, restVars>>

NextGraph ==
    \/ \E id \in Ids : AddNode(id)
    \/ \E a \in Ids, b \in Ids : AddEdge(a, b)
    \/ HasCycle
    \/ TopologicalSort

SpecGraph == InitGraph /\ [][NextGraph]_vars

\* =========================================================================
\* The pipeline: GenerateTemplatesUseCase.execute, or a direct call of
\* SequencePlannerAgent.execute
\* =========================================================================
Init == GraphIdle /\ PlanIdle /\ RestIdle

\* the number of dependency entries of a feature list
RECURSIVE DepsIn(_)
DepsIn(fs) ==
    IF fs = <<>> THEN 0
    ELSE DepsIn(SubSeq(fs, 1, Len(fs) - 1)) + Len(fs[Len(fs)].dependencies)

\* The document gains a feature: one more feature section of the markdown
\* text, or PRD.add_feature on a PRD a caller builds.  Ids are distinct
\* (the extractor suffixes the position).
AddFeature ==
    /\ pc = "idle"
    /\ Len(features) < MaxFeatures
    /\ \E k \in 0..(MaxDeps - DepsIn(features)) :
          \E d \in [1..k -> Tokens] :
             features' = Append(features,
                            [id           |-> FeatureId(Len(features) + 1),
                             title        |-> FeatureTitle(Len(features) + 1),
                             dependencies |-> d])
    /\ UNCHANGED <<graphVars, restVars, caller, prd_features, pc, dependency_graph,
                   working_graph, feature_priorities, removed_edges,
                   feature_sequence, tasks, template_paths>>

\* the PRD the markdown analysis returns: PRD(id=..., title=..., ...) is
\* built without features, and the feature list is returned beside it
analyzed_prd_features(fs) == <<>>

\* GenerateTemplatesUseCase.execute step 1: prd, features = analysis;
\* step 3 then hands prd to the planner
AnalyzeDocument ==
    /\ pc = "idle"
    /\ caller' = "use_case"
    /\ prd_features' = analyzed_prd_features(features)
    /\ pc' = "build"
    /\ UNCHANGED <<graphVars, restVars, features, dependency_graph, working_graph,
                   feature_priorities, removed_edges, feature_sequence,
                   tasks, template_paths>>

\* a caller hands SequencePlannerAgent.execute a PRD that holds the features
CallExecute ==
    /\ pc = "idle"
    /\ caller' = "direct"
    /\ prd_features' = features
    /\ pc' = "build"
    /\ UNCHANGED <<graphVars, restVars, features, dependency_graph, working_graph,
                   feature_priorities, removed_edges, feature_sequence,
                   tasks, template_paths>>

\* execute line 125
BuildDependencyGraph ==
    /\ pc = "build"
    /\ dependency_graph' = build_dependency_graph(prd_features)
    /\ pc' = "sort"
    /\ UNCHANGED <<graphVars, restVars, features, caller, prd_features, working_graph,
                   feature_priorities, removed_edges, feature_sequence,
                   tasks, template_paths>>

\* execute lines 128-132: the sort, and on ValueError the entry into
\* _resolve_cyclic_dependencies (lines 211-219).  Feature.priority is read
\* nowhere else in the planner; its values are an input drawn here.
TrySort ==
    /\ pc = "sort"
    /\ \E r \in topological_sort(dependency_graph) :
          IF r.raised
          THEN /\ working_graph' = dependency_graph
               /\ \E prio \in [{prd_features[i].id : i \in 1..Len(prd_features)}
                               -> Priorities] :
                     feature_priorities' = prio
               /\ removed_edges' = <<>>
               /\ pc' = "resolve"
               /\ UNCHANGED feature_sequence
          ELSE /\ feature_sequence' = r.result
               /\ pc' = "tasks"
               /\ UNCHANGED <<working_graph, feature_priorities, removed_edges>>
    /\ UNCHANGED <<graphVars, restVars, features, caller, prd_features, dependency_graph,
                   tasks, template_paths>>

\* one test of "while working_graph.has_cycle()" and, when it holds, one
\* pass through the loop body (lines 220-239)
ResolveIteration ==
    /\ pc = "resolve"
    /\ \E c \in has_cycle(working_graph) :
          IF c /\ edge_to_remove(working_graph, feature_priorities) # {}
          THEN \E e \in edge_to_remove(working_graph, feature_priorities) :
                  /\ working_graph' = remove_edge(working_graph, e)
                  /\ removed_edges' = Append(removed_edges, e)
                  /\ pc' = "resolve"
          ELSE /\ pc' = "resolve_sort"
               /\ UNCHANGED <<working_graph, removed_edges>>
    /\ UNCHANGED <<graphVars, restVars, features, caller, prd_features, dependency_graph,
                   feature_priorities, feature_sequence, tasks, template_paths>>

\* lines 242-244; a ValueError here leaves execute
ResolveSort ==
    /\ pc = "resolve_sort"
    /\ \E r \in topological_sort(working_graph) :
          IF r.raised
          THEN pc' = "raised" /\ UNCHANGED feature_sequence
          ELSE pc' = "tasks" /\ feature_sequence' = r.result
    /\ UNCHANGED <<graphVars, restVars, features, caller, prd_features, dependency_graph,
                   working_graph, feature_priorities, removed_edges, tasks,
                   template_paths>>

\* execute lines 135-175: the workflow and its tasks
CreateTasks ==
    /\ pc = "tasks"
    /\ tasks' = create_tasks(prd_features, feature_sequence, 1, 1, <<>>)
    /\ pc' = "planned"
    /\ UNCHANGED <<graphVars, restVars, features, caller, prd_features, dependency_graph,
                   working_graph, feature_priorities, removed_edges,
                   feature_sequence, template_paths>>

\* GenerateTemplatesUseCase.execute step 4 (lines 119-156).  The loop body
\* starts by formatting task.title, an attribute Task does not have, so a
\* non-empty task list ends in AttributeError.
GenerateTemplates ==
    /\ pc = "planned"
    /\ caller = "use_case"
    /\ IF tasks = <<>>
       THEN template_paths' = <<>> /\ pc' = "done"
       ELSE pc' = "raised" /\ UNCHANGED template_paths
    /\ UNCHANGED <<graphVars, restVars, features, caller, prd_features, dependency_graph,
                   working_graph, feature_priorities, removed_edges,
                   feature_sequence, tasks>>

Next ==
    \/ AddFeature
    \/ AnalyzeDocument
    \/ CallExecute
    \/ BuildDependencyGraph
    \/ TrySort
    \/ ResolveIteration
    \/ ResolveSort
    \/ CreateTasks
    \/ GenerateTemplates

Spec == Init /\ [][Next]_vars

\* =========================================================================
\* The renderer: a client of XMLTemplateGenerator, or one call of
\* TemplateGenerationAgent.execute
\* =========================================================================
InitRender == GraphIdle /\ PlanIdle /\ RestIdle

\* the path of a custom template file
TemplatePaths == {"custom.xml"}

\* what a custom template file can hold: a well-formed template with a slot
\* no caller knows, one with an unclosed element, one with slots in an
\* attribute value and in content, and an empty file
CustomTemplates ==
    {<<Open("Task"), Field("task_id"), Field("custom_slot"), Close("Task")>>,
     <<Open("Task"), Open("Name"), Field("task_name"), Close("Task")>>,
     <<AttrStart("Task"), Field("business_domain"), AttrEndOpen,
       Field("languages"), Close("Task")>>,
     <<>>}

\* the field of the arguments that holds the drawn text; every other field
\* holds Plain
HotSlots ==
    {"task_id", "task_name", "task_description", "depends_on", "author",
     "title", "description", "feature_id", "feature_title",
     "feature_description", "requirement", "business_domain"}

SequenceNumbers == {1, 2}

Dates == {"2025-06-01"}

NoCodebase ==
    [present |-> FALSE, technologies |-> <<>>, architecture_patterns |-> <<>>,
     components |-> <<>>]

EmptyCodebase == [NoCodebase EXCEPT !.present = TRUE]

FullCodebase ==
    [present               |-> TRUE,
     technologies          |->
         <<[name |-> Plain, version |-> <<>>, category |-> "language"],
           [name |-> Plain, version |-> Plain, category |-> "framework"],
           [name |-> Plain, version |-> Plain, category |-> "library"]>>,
     architecture_patterns |-> <<Plain, Plain>>,
     components            |->
         <<[name |-> Plain, path |-> Plain, type |-> "file"],
           [name |-> <<".">>, path |-> Plain, type |-> "directory"]>>]

Codebases == {NoCodebase, EmptyCodebase, FullCodebase}

\* the task, feature and PRD handed to the renderer
RenderInput(slot, text, sequence_number, with_lists) ==
    LET T(s) == IF s = slot THEN text ELSE Plain IN
    [task    |-> [task_id         |-> T("task_id"),
                  sequence_number |-> sequence_number,
                  name            |-> T("task_name"),
                  description     |-> T("task_description"),
                  depends_on      |-> IF with_lists
                                      THEN <<T("depends_on"), Plain>>
                                      ELSE <<>>],
     feature |-> [id           |-> T("feature_id"),
                  title        |-> T("feature_title"),
                  description  |-> T("feature_description"),
                  requirements |-> IF with_lists
                                   THEN <<T("requirement"), Plain>>
                                   ELSE <<>>],
     prd     |-> [title       |-> T("title"),
                  description |-> T("description"),
                  author      |-> T("author")]]

\* the extra context a caller of generate_task_template can pass
ExtraContext(slot, text) ==
    [business_domain |-> Chs(IF slot = "business_domain" THEN text ELSE Plain),
     custom_slot     |-> <<Ch("custom")>>,
     task_id         |-> <<Ch("from the extra context")>>]

\* XMLTemplateGenerator(template_path)
Construct ==
    /\ rpc = "new"
    /\ \E p \in {""} \cup TemplatePaths, exists \in BOOLEAN,
          file_content \in CustomTemplates :
          /\ p = "" => ~exists
          /\ template_path' = p
          /\ path_exists' = exists
          /\ template_content' = load_template(p, exists, file_content)
    /\ rpc' = "loaded"
    /\ UNCHANGED <<graphVars, planVars, extractVars, adkVars, lateVars, render_args, rendered, validation,
                   agent_ret>>

\* generate_task_template(task, feature, prd, codebase, additional_context)
GenerateTaskTemplate ==
    /\ rpc = "loaded"
    /\ \E slot \in HotSlots, text \in Texts, n \in SequenceNumbers,
          with_lists \in BOOLEAN, codebase \in Codebases,
          with_context \in BOOLEAN, date \in Dates :
          LET in == RenderInput(slot, text, n, with_lists)
              additional_context ==
                  IF with_context THEN ExtraContext(slot, text)
                  ELSE EmptyContext
          IN  /\ render_args' =
                     [task |-> in.task, feature |-> in.feature, prd |-> in.prd,
                      codebase |-> codebase,
                      additional_context |-> additional_context,
                      date |-> date]
              /\ rendered' =
                     generate_task_template(template_content, in.task,
                         in.feature, in.prd, codebase, additional_context, date)
    /\ rpc' = "rendered"
    /\ UNCHANGED <<graphVars, planVars, extractVars, adkVars, lateVars, template_path, path_exists,
                   template_content, validation, agent_ret>>

\* validate_xml(xml_content) on the rendered text
ValidateXml ==
    /\ rpc = "rendered"
    /\ rendered.raised = "none"
    /\ validation' = validate_xml(rendered.text)
    /\ rpc' = "validated"
    /\ UNCHANGED <<graphVars, planVars, extractVars, adkVars, lateVars, template_path, path_exists,
                   template_content, render_args, rendered, agent_ret>>

\* f"{task.sequence_number:02d}_{feature.id}_{task.task_id}.xml"
output_path(task, feature) ==
    <<Ch((IF task.sequence_number < 10 THEN "0" ELSE "")
         \o ToString(task.sequence_number)), Ch("_")>>
    \o Chs(feature.id) \o <<Ch("_")>> \o Chs(task.task_id) \o <<Ch(".xml")>>

\* TemplateGenerationAgent.execute: the agent owns a generator built without
\* a template path; whether the file can be written is up to the file system
AgentExecute ==
    /\ rpc = "new"
    /\ \E slot \in HotSlots, text \in Texts, n \in SequenceNumbers,
          with_lists \in BOOLEAN, codebase \in Codebases, date \in Dates,
          writable \in BOOLEAN :
          LET in == RenderInput(slot, text, n, with_lists)
              additional_context ==
                  prepare_additional_context(in.task, in.feature, in.prd,
                                             codebase)
              content == load_template("", FALSE, <<>>)
              out == generate_task_template(content, in.task, in.feature,
                         in.prd, codebase, additional_context, date)
              checked == validate_xml(out.text)
          IN  /\ template_path' = ""
              /\ path_exists' = FALSE
              /\ template_content' = content
              /\ render_args' =
                     [task |-> in.task, feature |-> in.feature, prd |-> in.prd,
                      codebase |-> codebase,
                      additional_context |-> additional_context,
                      date |-> date]
              /\ rendered' = out
              /\ IF out.raised # "none"
                 THEN /\ validation' = NoValidation
                      /\ agent_ret' = [raised |-> out.raised, path |-> <<>>]
                 ELSE /\ validation' = checked
                      /\ agent_ret' =
                            IF ~checked.valid
                            THEN [raised |-> "ValueError", path |-> <<>>]
                            ELSE IF ~writable
                            THEN [raised |-> "IOError", path |-> <<>>]
                            ELSE [raised |-> "none",
                                  path |-> output_path(in.task, in.feature)]
    /\ rpc' = "agent_done"
    /\ UNCHANGED <<graphVars, planVars, extractVars, adkVars, lateVars>>

NextRender ==
    \/ Construct
    \/ GenerateTaskTemplate
    \/ ValidateXml
    \/ AgentExecute

SpecRender == InitRender /\ [][NextRender]_vars

\* =========================================================================
\* The extractor: DocumentAnalysisAgent.execute on a markdown document
\* =========================================================================
InitExtract == GraphIdle /\ PlanIdle /\ RestIdle

MaxBlocks == 2

MaxEntries == 2

Titles == {<<"Login">>, <<"User", "Login">>, <<"Overview">>}

\* what a dependency entry can hold: part of a title, a name no feature has,
\* a generated id, an id given in a table
DependencyEntries == {<<"login">>, <<"payments">>, <<"login_00">>, <<"F1">>}

PriorityStatements ==
    {NoPriority} \cup
    [form : {"bold_in", "bold_out", "plain", "word"},
     word : {"high", "low", "p1", "critical"}]

RowIds == {"", "F1"}

PriorityCells == {"1", "High"}

TableColumns == {6, 7}

\* the number of dependency entries the document holds
RECURSIVE EntriesIn(_)
EntriesIn(items) ==
    IF items = <<>> THEN 0
    ELSE Len(Head(items).dependencies) + EntriesIn(Tail(items))

DocumentGrows ==
    /\ epc = "reading"
    /\ Len(doc_rows) + Len(doc_sections) < MaxBlocks

EntryLists ==
    UNION {[1..n -> DependencyEntries] :
              n \in 0..(MaxEntries - EntriesIn(doc_rows)
                                   - EntriesIn(doc_sections))}

\* the document has one more ### block in its Features section
AddSection ==
    /\ DocumentGrows
    /\ \E title \in Titles, priority \in PriorityStatements,
          dependencies \in EntryLists :
          doc_sections' = Append(doc_sections,
              [title |-> title, priority |-> priority,
               dependencies |-> dependencies])
    /\ UNCHANGED <<graphVars, planVars, renderVars, adkVars, lateVars, doc_rows, doc_columns,
                   epc, analysis_path, extracted_features,
                   prd_dependency_graph>>

\* the feature table of the document has one more data row
AddRow ==
    /\ DocumentGrows
    /\ \E id \in RowIds, name \in Titles, priority \in PriorityCells,
          dependencies \in EntryLists :
          doc_rows' = Append(doc_rows,
              [id |-> id, name |-> name, priority |-> priority,
               dependencies |-> dependencies])
    /\ IF doc_rows = <<>>
       THEN doc_columns' \in TableColumns
       ELSE UNCHANGED doc_columns
    /\ UNCHANGED <<graphVars, planVars, renderVars, adkVars, lateVars, doc_sections, epc,
                   analysis_path, extracted_features, prd_dependency_graph>>

\* _analyze_markdown: the enhanced analysis where its libraries are
\* installed, the basic one where they are not or where the enhanced one
\* raised
AnalyzeMarkdown ==
    /\ epc = "reading"
    /\ \E ENHANCED_PARSING_AVAILABLE \in BOOLEAN :
          \E enhanced \in extract_features_enhanced(doc_rows, doc_columns,
                                                    doc_sections) :
             IF ENHANCED_PARSING_AVAILABLE /\ ~enhanced.raised
             THEN /\ analysis_path' = "enhanced"
                  /\ extracted_features' = enhanced.features
                  /\ prd_dependency_graph' =
                         generate_dependency_graph(enhanced.features)
             ELSE /\ analysis_path' = "basic"
                  /\ extracted_features' = extract_features(doc_sections)
                  /\ prd_dependency_graph' = EmptyDependencyGraph
    /\ epc' = "analyzed"
    /\ UNCHANGED <<graphVars, planVars, renderVars, adkVars, lateVars, doc_rows, doc_columns,
                   doc_sections>>

NextExtract ==
    \/ AddSection
    \/ AddRow
    \/ AnalyzeMarkdown

SpecExtract == InitExtract /\ [][NextExtract]_vars

\* =========================================================================
\* The ADK planner tool: analyze_feature_dependencies on a list of features
\* =========================================================================
InitAdk == GraphIdle /\ PlanIdle /\ RestIdle

MaxRequirements == 2

MaxDependencyNames == 2

\* what a dependency entry of features_data can hold: ids and a name
AdkDependencyNames == {FeatureId(1), FeatureTitle(1), FeatureId(2)}

Descriptions == {<<"simple", "feature">>, <<"API", "integration">>}

RECURSIVE RequirementsIn(_)
RequirementsIn(fs) ==
    IF fs = <<>> THEN 0
    ELSE Len(Head(fs).requirements) + RequirementsIn(Tail(fs))

\* features_data has one more feature
AdkAddFeature ==
    /\ apc = "input"
    /\ Len(adk_features) < MaxFeatures
    /\ \E r \in 0..(MaxRequirements - RequirementsIn(adk_features)),
          n \in 0..(MaxDependencyNames - EntriesIn(adk_features)),
          priority \in Priorities, description \in Descriptions :
          \E dependencies \in [1..n -> AdkDependencyNames] :
             adk_features' = Append(adk_features,
                 [id           |-> FeatureId(Len(adk_features) + 1),
                  name         |-> FeatureTitle(Len(adk_features) + 1),
                  requirements |-> [k \in 1..r |-> "requirement"],
                  dependencies |-> dependencies,
                  priority     |-> priority,
                  description  |-> description])
    /\ UNCHANGED <<adkFrame, adk_keys,
                   adk_graph, in_degree, queue, adk_result, apc,
                   circular_dependencies>>

\* analyze_feature_dependencies up to the first pass of the loop of
\* _topological_sort; where _detect_circular_dependencies raises, the tool
\* returns its error result
AdkAnalyze ==
    /\ apc = "input"
    /\ LET g      == adk_dependency_graph(adk_features)
           keys   == [i \in 1..Len(adk_features) |-> adk_features[i].id]
           cycles == detect_circular_dependencies(g, keys)
       IN  /\ adk_graph' = g
           /\ adk_keys' = keys
           /\ IF cycles.raised
              THEN /\ apc' = "error"
                   /\ UNCHANGED <<circular_dependencies, in_degree, queue>>
              ELSE /\ apc' = "sorting"
                   /\ circular_dependencies' = cycles.circular_deps
                   /\ in_degree' = initial_in_degree(g)
                   /\ queue' = free_nodes(initial_in_degree(g), keys, 1)
    /\ adk_result' = <<>>
    /\ UNCHANGED <<adkFrame, adk_features>>

\* one pass of the while loop of _topological_sort
AdkSortStep ==
    /\ apc = "sorting"
    /\ queue # <<>>
    /\ LET sorted  == sort_by_complexity(adk_graph, queue)
           current == Head(sorted)
       IN  /\ adk_result' = Append(adk_result, current)
           /\ in_degree' = lowered_in_degree(adk_graph, in_degree, current)
           /\ queue' = Tail(sorted)
                       \o freed_nodes(adk_graph, in_degree, current,
                                      adk_keys, 1)
    /\ UNCHANGED <<adkFrame, adk_features,
                   adk_keys, adk_graph, apc, circular_dependencies>>

\* the loop ends and the sequence is returned
AdkSortReturn ==
    /\ apc = "sorting"
    /\ queue = <<>>
    /\ apc' = "done"
    /\ UNCHANGED <<adkFrame, adk_features,
                   adk_keys, adk_graph, in_degree, queue, adk_result,
                   circular_dependencies>>

NextAdk ==
    \/ AdkAddFeature
    \/ AdkAnalyze
    \/ AdkSortStep
    \/ AdkSortReturn

SpecAdk == InitAdk /\ [][NextAdk]_vars

\* =========================================================================
\* A caller of DocumentAnalysisAgent.execute
\* =========================================================================
InitExecute == GraphIdle /\ PlanIdle /\ RestIdle

MaxLines == 3

Suffixes == {".md", ".MD", ".docx", ".doc", ".pdf", ".txt"}

FrontMatters == {"none", "titled", "malformed"}

Lines ==
    {[kind |-> "text", text |-> "random"],
     [kind |-> "h1", text |-> "Shop"],
     [kind |-> "h1_prd", text |-> "Cart"],
     [kind |-> "version", text |-> "1.2"],
     [kind |-> "author", text |-> "Bob"],
     [kind |-> "features", text |-> "Features"],
     [kind |-> "h3", text |-> "Login"]}

\* a file is put at document_path, or none is
WriteFile ==
    /\ xpc = "writing"
    /\ \E exists \in BOOLEAN, suffix \in Suffixes, utf8 \in BOOLEAN,
          front_matter \in FrontMatters :
          file' = [exists |-> exists, suffix |-> suffix, utf8 |-> utf8,
                   front_matter |-> front_matter, lines |-> <<>>]
    /\ xpc' = "written"
    /\ UNCHANGED <<execFrame, exec_ret>>

\* the file has one more line
WriteLine ==
    /\ xpc = "written"
    /\ file.exists /\ file.utf8
    /\ Len(file.lines) < MaxLines
    /\ \E line \in Lines :
          file' = [file EXCEPT !.lines = Append(@, line)]
    /\ UNCHANGED <<execFrame, exec_ret, xpc>>

\* await agent.execute(document_path)
Execute ==
    /\ xpc = "written"
    /\ \E ENHANCED_PARSING_AVAILABLE \in BOOLEAN :
          exec_ret' \in execute(file, ENHANCED_PARSING_AVAILABLE)
    /\ xpc' = "done"
    /\ UNCHANGED <<execFrame, file>>

NextExecute ==
    \/ WriteFile
    \/ WriteLine
    \/ Execute

SpecExecute == InitExecute /\ [][NextExecute]_vars

\* =========================================================================
\* A client adding tasks to a Workflow
\* =========================================================================
InitWorkflow == GraphIdle /\ PlanIdle /\ RestIdle

MaxAdded == 4

MaxSequenceNumber == 3

\* workflow.add_task(task), for a task of any sequence number
WorkflowAddTask ==
    /\ Len(added_tasks) < MaxAdded
    /\ \E sequence_number \in 1..MaxSequenceNumber :
          LET task == [task_id         |-> TaskId(ToString(Len(added_tasks) + 1)),
                       sequence_number |-> sequence_number]
          IN  /\ workflow_tasks' = add_task(workflow_tasks, task)
              /\ added_tasks' = Append(added_tasks, task)
    /\ UNCHANGED workflowFrame

NextWorkflow == WorkflowAddTask

SpecWorkflow == InitWorkflow /\ [][NextWorkflow]_vars

\* =========================================================================
\* A caller of TaskSequencer.create_from_ai_result who then works through
\* the sequence with get_next_tasks
\* =========================================================================
InitSequence == GraphIdle /\ PlanIdle /\ RestIdle

MaxAiTasks == 3

MaxAiDependencies == 2

AiTaskId(i) == "t" \o ToString(i)

\* what a dependency entry of an AI task can hold: task ids, one of no task
AiDependencyIds == {AiTaskId(1), AiTaskId(2), AiTaskId(3), "t0"}

\* the AI result has one more task
AddAiTask ==
    /\ spc = "input"
    /\ Len(ai_tasks) < MaxAiTasks
    /\ \E n \in 0..MaxAiDependencies :
          \E dependencies \in [1..n -> AiDependencyIds] :
             ai_tasks' = Append(ai_tasks,
                 [task_id      |-> AiTaskId(Len(ai_tasks) + 1),
                  dependencies |-> dependencies])
    /\ UNCHANGED <<sequenceFrame, sequence, completed_task_ids, next_tasks, spc>>

\* sequence = sequencer.create_from_ai_result(ai_tasks, context)
CreateFromAiResult ==
    /\ spc = "input"
    /\ sequence' = create_from_ai_result(ai_tasks)
    /\ spc' = "created"
    /\ UNCHANGED <<sequenceFrame, ai_tasks, completed_task_ids, next_tasks>>

\* next_tasks = sequence.get_next_tasks(completed_task_ids)
GetNextTasks ==
    /\ spc = "created"
    /\ next_tasks' = get_next_tasks(sequence.tasks, completed_task_ids, 1)
    /\ spc' = "offered"
    /\ UNCHANGED <<sequenceFrame, ai_tasks, sequence, completed_task_ids>>

\* the caller completes one of the tasks it was given
MarkCompleted ==
    /\ spc = "offered"
    /\ \E k \in 1..Len(next_tasks) :
          completed_task_ids' = completed_task_ids \cup {next_tasks[k].id}
    /\ spc' = "created"
    /\ UNCHANGED <<sequenceFrame, ai_tasks, sequence, next_tasks>>

NextSequence ==
    \/ AddAiTask
    \/ CreateFromAiResult
    \/ GetNextTasks
    \/ MarkCompleted

SpecSequence == InitSequence /\ [][NextSequence]_vars

\* the caller keeps asking for tasks and completing one of them
SpecSequenceFair ==
    SpecSequence /\ WF_vars(GetNextTasks) /\ WF_vars(MarkCompleted)

\* =========================================================================
\* A caller rendering several tasks with the same extra-context object
\* =========================================================================
InitContext == GraphIdle /\ PlanIdle /\ RestIdle

MaxRenders == 2

\* the caller builds its extra context
ShareContext ==
    /\ renders = 0
    /\ caller_context = EmptyContext
    /\ \E text \in Texts :
          /\ caller_context' = ExtraContext("business_domain", text)
          /\ original_context' = ExtraContext("business_domain", text)
    /\ UNCHANGED <<contextFrame, shared_rendered, alone_rendered, renders>>

\* generator.generate_task_template(task, feature, prd, codebase, context)
\* on a generator with the default template
RenderShared ==
    /\ renders < MaxRenders
    /\ \E text \in Texts, n \in SequenceNumbers, with_lists \in BOOLEAN,
          codebase \in Codebases, date \in Dates :
          LET in == RenderInput("task_description", text, n, with_lists)
              content == load_template("", FALSE, <<>>)
          IN  /\ shared_rendered' =
                     generate_task_template(content, in.task, in.feature,
                         in.prd, codebase, caller_context, date)
              /\ caller_context' =
                     additional_context_after(content, in.task, in.feature,
                         in.prd, codebase, caller_context, date)
              /\ alone_rendered' =
                     generate_task_template(content, in.task, in.feature,
                         in.prd, codebase, original_context, date)
    /\ renders' = renders + 1
    /\ UNCHANGED <<contextFrame, original_context>>

NextContext ==
    \/ ShareContext
    \/ RenderShared

SpecContext == InitContext /\ [][NextContext]_vars

\* =========================================================================
\* A call of _organize_features_into_phases on a list of features
\* =========================================================================
InitPhases == GraphIdle /\ PlanIdle /\ RestIdle

MaxPhaseFeatures == 3

MaxPhaseDependencies == 3

MaxPhaseRequirements == 1

\* what a dependency entry can hold: names of features, one of no feature
PhaseDependencyNames ==
    {FeatureTitle(i) : i \in 1..MaxPhaseFeatures} \cup {"n0"}

\* features has one more feature
AddPhaseFeature ==
    /\ ppc = "input"
    /\ Len(phase_features) < MaxPhaseFeatures
    /\ \E n \in 0..(MaxPhaseDependencies - EntriesIn(phase_features)),
          r \in 0..MaxPhaseRequirements :
          \E dependencies \in [1..n -> PhaseDependencyNames] :
             phase_features' = Append(phase_features,
                 [name         |-> FeatureTitle(Len(phase_features) + 1),
                  dependencies |-> dependencies,
                  requirements |-> [k \in 1..r |-> "requirement"]])
    /\ UNCHANGED <<phaseFrame, remaining_features, implemented_features,
                   phases, forced_features, ppc>>

\* the call, up to the first test of "while remaining_features"
OrganizeStart ==
    /\ ppc = "input"
    /\ remaining_features' = phase_features
    /\ implemented_features' = {}
    /\ phases' = <<>>
    /\ ppc' = "organizing"
    /\ UNCHANGED <<phaseFrame, phase_features, forced_features>>

\* one pass of the while loop
OrganizePass ==
    /\ ppc = "organizing"
    /\ remaining_features # <<>>
    /\ LET pass == organize_pass(remaining_features, implemented_features)
       IN  /\ remaining_features' = pass.remaining_features
           /\ implemented_features' = pass.implemented_features
           /\ phases' = IF pass.current_phase # <<>>
                        THEN Append(phases, pass.current_phase)
                        ELSE phases
           /\ forced_features' =
                  IF pass.forced
                  THEN forced_features \cup {pass.current_phase[1].name}
                  ELSE forced_features
    /\ UNCHANGED <<phaseFrame, phase_features, ppc>>

\* the loop ends: return phases
OrganizeReturn ==
    /\ ppc = "organizing"
    /\ remaining_features = <<>>
    /\ ppc' = "done"
    /\ UNCHANGED <<phaseFrame, phase_features, remaining_features,
                   implemented_features, phases, forced_features>>

NextPhases ==
    \/ AddPhaseFeature
    \/ OrganizeStart
    \/ OrganizePass
    \/ OrganizeReturn

SpecPhases == InitPhases /\ [][NextPhases]_vars

\* the call keeps running
SpecPhasesFair ==
    SpecPhases /\ WF_vars(OrganizePass) /\ WF_vars(OrganizeReturn)

\* =========================================================================
\* Claims
\* =========================================================================
FeatureIdsOf(fs) == {fs[i].id : i \in 1..Len(fs)}

TaskOf(feature_id) ==
    CHOOSE k \in 1..Len(tasks) : tasks[k].feature_id = feature_id

HasTask(feature_id) == \E k \in 1..Len(tasks) : tasks[k].feature_id = feature_id

SortReturned == ret.op = "topological_sort" /\ ~ret.raised

\* the planner has returned a workflow
Planned == pc \in {"planned", "done"}

\* _resolve_cyclic_dependencies has been entered
Resolving == working_graph # NewGraph

\* C1: in the list topological_sort returns, for every edge A -> B
\* (A depends on B) B comes before A.
C1_DependenciesFirst ==
    SortReturned =>
        \A e \in Edges(graph) :
            IndexOf(ret.value, e[2]) < IndexOf(ret.value, e[1])

\* C2: the use case plans one task per extracted feature and returns one
\* template path per feature; the PRD handed to the planner carries the
\* extracted feature list.
C2_OneTaskPerExtractedFeature ==
    (caller = "use_case" /\ pc = "done") =>
        /\ prd_features = features
        /\ Len(tasks) = Len(features)
        /\ Len(template_paths) = Len(features)

\* C3: when F2 names F1 (by F1's title) as a dependency, and F1 itself has
\* no dependency, the planner gives task(F1) the smaller sequence number and
\* lists task(F1) in task(F2).depends_on.
C3_NamedDependencyOrdered ==
    (Planned /\ caller = "direct") =>
        \A i \in 1..Len(prd_features), j \in 1..Len(prd_features) :
            (/\ i # j
             /\ prd_features[i].dependencies = <<>>
             /\ prd_features[i].title \in Range(prd_features[j].dependencies))
            => /\ HasTask(prd_features[i].id)
               /\ HasTask(prd_features[j].id)
               /\ tasks[TaskOf(prd_features[i].id)].sequence_number
                    < tasks[TaskOf(prd_features[j].id)].sequence_number
               /\ TaskId(prd_features[i].id)
                    \in Range(tasks[TaskOf(prd_features[j].id)].depends_on)

\* C4: cycle resolution never raises and ends; every pass of its loop takes
\* one edge away, the order it returns holds every node of the graph
\* exactly once, and the working graph has no cycle left.
C4_ResolutionTotal ==
    /\ pc # "raised"
    /\ Resolving =>
          /\ Edges(working_graph) = Edges(dependency_graph) \ Range(removed_edges)
          /\ Len(removed_edges) + Cardinality(Edges(working_graph))
               = Cardinality(Edges(dependency_graph))
    /\ (Resolving /\ pc \in {"tasks", "planned", "done"}) =>
          /\ ~HasDirectedCycle(working_graph)
          /\ Len(feature_sequence) = Cardinality(DOMAIN working_graph.adj)
          /\ Range(feature_sequence) = DOMAIN working_graph.adj

C4_Witness ==
    /\ pc = "planned"
    /\ Len(removed_edges) >= 2
    /\ \E k \in 1..Len(removed_edges) : removed_edges[k][1] = removed_edges[k][2]
    /\ \E k \in 1..Len(removed_edges) : removed_edges[k][1] # removed_edges[k][2]

\* the ids of feature_sequence that are ids of features, in order
FeaturesInOrder ==
    SelectSeq(feature_sequence, LAMBDA id : id \in FeatureIdsOf(prd_features))

\* C5: the tasks are one per feature, the k-th task has sequence number k
\* and belongs to the k-th feature of the resolved order.
C5_DenseSequenceNumbers ==
    Planned =>
        /\ Len(tasks) = Len(prd_features)
        /\ Len(FeaturesInOrder) = Len(prd_features)
        /\ \A k \in 1..Len(tasks) :
              /\ tasks[k].sequence_number = k
              /\ tasks[k].feature_id = FeaturesInOrder[k]
        /\ \A i \in 1..Len(prd_features) :
              Cardinality({k \in 1..Len(tasks) :
                             tasks[k].feature_id = prd_features[i].id}) = 1

C5_Witness ==
    /\ pc = "planned"
    /\ Len(tasks) = 3
    /\ Resolving
    /\ \E k \in 1..Len(feature_sequence) :
          /\ feature_sequence[k] \notin FeatureIdsOf(prd_features)
          /\ k < Len(feature_sequence)

\* C6: every task id in a task's depends_on is the id of a task with a
\* smaller sequence number.
C6_DependsOnEarlier ==
    Planned =>
        \A k \in 1..Len(tasks) :
            \A d \in Range(tasks[k].depends_on) :
                \E u \in 1..Len(tasks) :
                    /\ tasks[u].task_id = d
                    /\ tasks[u].sequence_number < tasks[k].sequence_number

\* the dependency entries of feature i that match no feature
Unmatched(i) ==
    Range(prd_features[i].dependencies) \ FeatureIdsOf(prd_features)

\* C7: a dependency that matches no feature does not stop the run: every
\* feature gets its task, the entry adds nothing to depends_on and no task,
\* and every depends_on entry is the id of a task of the workflow.
C7_UnmatchedDropped ==
    /\ caller = "direct" => pc # "raised"
    /\ Planned =>
          /\ \A i \in 1..Len(prd_features) : HasTask(prd_features[i].id)
          /\ \A k \in 1..Len(tasks) :
                /\ tasks[k].feature_id \in FeatureIdsOf(prd_features)
                /\ \A d \in Range(tasks[k].depends_on) :
                      \E u \in 1..Len(tasks) : tasks[u].task_id = d
          /\ \A i \in 1..Len(prd_features) :
                Range(tasks[TaskOf(prd_features[i].id)].depends_on)
                  = {TaskId(d) : d \in Range(prd_features[i].dependencies)
                                        \cap FeatureIdsOf(prd_features)}

C7_Witness ==
    /\ pc = "planned"
    /\ Len(tasks) = 2
    /\ \E i \in 1..Len(prd_features) :
          /\ Unmatched(i) # {}
          /\ Range(prd_features[i].dependencies) \cap FeatureIdsOf(prd_features) # {}
          /\ \E d \in Unmatched(i) :
                \A j \in 1..Len(prd_features) : d # prd_features[j].title

\* C8: topological_sort raises exactly when the graph has a directed
\* cycle, and then no ordering has been produced.
C8_RaisesIffCycle ==
    ret.op = "topological_sort" =>
        /\ ret.raised <=> HasDirectedCycle(graph)
        /\ ret.raised => ret.value = <<>>
        /\ ~ret.raised => Len(ret.value) = Len(graph.keys)

C8_Witness ==
    /\ ret.op = "topological_sort"
    /\ ret.raised
    /\ Len(graph.keys) = 3
    /\ \A n \in DOMAIN graph.adj : n \notin graph.adj[n]

\* C9: has_cycle returns true exactly when the graph has a directed cycle,
\* whatever the iteration order.
C9_HasCycleExact ==
    ret.op = "has_cycle" => (ret.value <=> HasDirectedCycle(graph))

C9_Witness ==
    /\ ret.op = "has_cycle"
    /\ ~ret.value
    /\ Cardinality(Edges(graph)) = 3
    /\ Len(graph.keys) = 3

GraphClosed(g) ==
    /\ Range(g.keys) = DOMAIN g.adj
    /\ \A n \in DOMAIN g.adj : g.adj[n] \subseteq DOMAIN g.adj

PrioritySum(e) ==
    (IF e[1] \in DOMAIN feature_priorities THEN feature_priorities[e[1]] ELSE 0)
    + (IF e[2] \in DOMAIN feature_priorities THEN feature_priorities[e[2]] ELSE 0)

\* the edges of the working graph before the k-th removal
EdgesBefore(k) ==
    Edges(dependency_graph) \ {removed_edges[j] : j \in 1..(k - 1)}

\* C11: every pass of the resolution loop removes exactly one edge, and
\* that edge has the least priority(A) + priority(B) of the edges the
\* working graph holds at that moment.
C11_RemovesLeastEdge ==
    Resolving =>
        /\ Edges(working_graph) = EdgesBefore(Len(removed_edges) + 1)
        /\ \A k \in 1..Len(removed_edges) :
              /\ removed_edges[k] \in EdgesBefore(k)
              /\ \A o \in EdgesBefore(k) :
                    PrioritySum(removed_edges[k]) <= PrioritySum(o)

C11_Witness ==
    /\ Resolving
    /\ Len(removed_edges) = 2
    /\ \E o \in EdgesBefore(1) : PrioritySum(removed_edges[1]) < PrioritySum(o)
    /\ \E o \in EdgesBefore(2) : PrioritySum(removed_edges[2]) < PrioritySum(o)
    /\ \E e \in EdgesBefore(1) : e[2] \notin DOMAIN feature_priorities

\* ---------------------------------------------------------------- renderer
\* generate_task_template has been called on a generator a client built
Rendered == rpc \in {"rendered", "validated"}

\* the values the call supplies: from the task, the feature, the document,
\* the codebase and the extra context
Supplied ==
    supplied_context(render_args.task, render_args.feature, render_args.prd,
                     render_args.codebase, render_args.additional_context,
                     render_args.date)

\* the template with every slot replaced by its supplied value, or by the
\* empty string
RECURSIVE Substituted(_, _, _)
Substituted(t, values, i) ==
    IF i > Len(t) THEN <<>>
    ELSE (IF t[i].k # "field" THEN <<t[i]>>
          ELSE IF t[i].v \in DOMAIN values THEN values[t[i].v] ELSE <<>>)
         \o Substituted(t, values, i + 1)

EmptyElement(tag) ==
    \E i \in 1..(Len(rendered.text) - 1) :
        rendered.text[i] = Open(tag) /\ rendered.text[i + 1] = Close(tag)

\* C13: rendering the default template with a task, a feature and a document
\* only (no codebase, no extra context) yields text validate_xml accepts,
\* whatever characters the fields hold, with the languages, frameworks and
\* architecture_pattern slots empty.
C13_MinimalRenderWellFormed ==
    (/\ rpc = "validated"
     /\ template_content = default_template
     /\ ~render_args.codebase.present
     /\ render_args.additional_context = EmptyContext)
    => /\ validation.valid
       /\ EmptyElement("Languages")
       /\ EmptyElement("Frameworks")
       /\ EmptyElement("Pattern")

\* C14: a generator built with a template path at which no file exists does
\* not come into being: it is never loaded and never renders.
C14_MissingTemplateFileFails ==
    (template_path # "" /\ ~path_exists) =>
        rpc \notin {"loaded", "rendered", "validated"}

\* C15: text that is not well-formed is reported as (valid = false, error)
\* and nothing is raised, by validate_xml and by the template-generation
\* step of the pipeline alike.
C15_MalformedReportedNotRaised ==
    /\ (rpc = "validated" /\ parse(rendered.text) # "ok") =>
           (~validation.valid /\ validation.error # "None")
    /\ (rpc = "agent_done" /\ parse(rendered.text) # "ok") =>
           agent_ret.raised = "none"

\* --------------------------------------------------------------- extractor
Analyzed == epc = "analyzed"

ExtractedIds ==
    {extracted_features[i].id : i \in 1..Len(extracted_features)}

\* the feature a dependency entry names: its title contains the entry, case
\* ignored, or its id equals the entry
Names(dependency, feature) ==
    \/ Contains(LowerText(feature.title), LowerText(dependency))
    \/ dependency = <<feature.id>>

\* the entries of a feature that name some extracted feature
NamingEntries(feature) ==
    {k \in 1..Len(feature.dependencies) :
        \E j \in 1..Len(extracted_features) :
            Names(feature.dependencies[k], extracted_features[j])}

\* C16: after extraction the dependency graph of the document has one key
\* per extracted feature id; the list under a feature holds one id for each
\* of its dependency entries that names a feature, the id of a feature the
\* entry names, and nothing for the other entries, so every id in every list
\* is the id of an extracted feature.
C16_DependencyGraphOfFeatures ==
    Analyzed =>
        /\ DOMAIN prd_dependency_graph = ExtractedIds
        /\ \A i \in 1..Len(extracted_features) :
              LET f    == extracted_features[i]
                  list == prd_dependency_graph[f.id]
              IN  /\ Len(list) = Cardinality(NamingEntries(f))
                  /\ \A n \in 1..Len(list) :
                        /\ list[n] \in ExtractedIds
                        /\ \E k \in NamingEntries(f),
                              j \in 1..Len(extracted_features) :
                              /\ Names(f.dependencies[k], extracted_features[j])
                              /\ extracted_features[j].id = list[n]

\* C17: no two features of one extraction have the same id, on the section
\* path, the basic path and the table path, and with equal titles.
C17_FeatureIdsUnique ==
    Analyzed =>
        \A i, j \in 1..Len(extracted_features) :
            extracted_features[i].id = extracted_features[j].id => i = j

\* C18: for every feature block the basic and the enhanced priority
\* extractor return the same ordinal, one of 0, 1, 2: 0 for high and p0, 1
\* for medium and p1, 2 for low and p2, and 0 for a block that states no
\* priority.
C18_PriorityExtractorsAgree ==
    Analyzed =>
        \A k \in 1..Len(doc_sections) :
            LET statement == doc_sections[k].priority
                basic     == extract_priority(statement)
                enhanced  == convert_priority_to_int(
                                 extract_priority_from_text(statement))
            IN  /\ basic = enhanced
                /\ basic \in 0..2
                /\ statement.form = "none" => basic = 0
                /\ (statement.form # "none"
                    /\ statement.word \in {"high", "p0"}) => basic = 0
                /\ (statement.form # "none"
                    /\ statement.word \in {"medium", "p1"}) => basic = 1
                /\ (statement.form # "none"
                    /\ statement.word \in {"low", "p2"}) => basic = 2

\* ------------------------------------------------------------- ADK planner
\* the nodes emitted before the k-th one
EmittedBefore(k) == {adk_result[j] : j \in 1..(k - 1)}

\* the nodes available when the k-th node is emitted: not yet emitted, and
\* every one of their dependencies emitted
AvailableAt(k) ==
    {node \in DOMAIN adk_graph \ EmittedBefore(k) :
        \A d \in 1..Len(adk_graph[node].dependencies) :
            adk_graph[node].dependencies[d] \in EmittedBefore(k)}

\* C19: every node the complexity-aware sort emits has, when it is emitted,
\* the lowest complexity of the nodes available at that moment.
C19_EmitsLowestComplexity ==
    apc # "input" =>
        \A k \in 1..Len(adk_result) :
            \A node \in AvailableAt(k) :
                adk_graph[adk_result[k]].complexity <= adk_graph[node].complexity

Bonus(priority) == IF priority = 0 THEN 3 ELSE IF priority = 1 THEN 2 ELSE 0

Keyword(feature) == IF mentions_keyword(feature.description) THEN 2 ELSE 0

RawScore(feature) ==
    Len(feature.requirements) + 2 * Len(feature.dependencies)
    + Bonus(feature.priority) + Keyword(feature)

\* C20: the complexity score of every feature is min(10, requirements + 2 *
\* dependencies + priority bonus + keyword bonus), so it lies in 0..10.
C20_ComplexityScore ==
    apc # "input" =>
        \A i \in 1..Len(adk_features) :
            LET feature == adk_features[i]
                score   == adk_graph[feature.id].complexity
            IN  /\ score = (IF RawScore(feature) < 10 THEN RawScore(feature)
                            ELSE 10)
                /\ score \in 0..10

C20_Witness ==
    /\ apc # "input"
    /\ \E i \in 1..Len(adk_features) :
          /\ RawScore(adk_features[i]) > 10
          /\ Keyword(adk_features[i]) = 2
          /\ adk_graph[adk_features[i].id].complexity = 10
    /\ \E i \in 1..Len(adk_features) :
          /\ RawScore(adk_features[i]) < 10
          /\ adk_features[i].priority = 2


\* --------------------------------------------------------- execute on a file
Unstructured(lines) == \A i \in 1..Len(lines) : lines[i].kind = "text"

\* C21: execute raises only for a missing path or an unsupported extension;
\* for an existing .md file it returns whatever the content is: content with
\* no headings gives the defaults and no features, and a failure of the
\* front-matter parsing still returns a result.
C21_RaisesOnlyForPathOrFormat ==
    xpc = "done" =>
        /\ exec_ret.raised # "none" =>
               \/ ~file.exists
               \/ lower_suffix(file.suffix) \notin {".md", ".docx", ".doc", ".pdf"}
        /\ file.exists /\ lower_suffix(file.suffix) = ".md" =>
               /\ exec_ret.raised = "none"
               /\ Unstructured(file.lines) /\ file.front_matter # "titled" =>
                      /\ exec_ret.title = "Unknown PRD"
                      /\ exec_ret.version = "0.0.0"
                      /\ exec_ret.author = "Unknown"
                      /\ exec_ret.features = <<>>

\* ------------------------------------------------------------------ Workflow
\* C22: after any sequence of add_task calls workflow.tasks holds every added
\* task exactly once and is sorted by non-decreasing sequence_number.
C22_TasksSortedAndComplete ==
    /\ Len(workflow_tasks) = Len(added_tasks)
    /\ \A k \in 1..Len(added_tasks) :
          Cardinality({i \in 1..Len(workflow_tasks) :
                          workflow_tasks[i] = added_tasks[k]}) = 1
    /\ \A i \in 1..(Len(workflow_tasks) - 1) :
          workflow_tasks[i].sequence_number
              <= workflow_tasks[i + 1].sequence_number

C22_Witness ==
    /\ Len(added_tasks) >= 3
    /\ added_tasks[1].sequence_number > added_tasks[2].sequence_number
    /\ added_tasks[3].sequence_number = added_tasks[1].sequence_number
    /\ workflow_tasks[1] = added_tasks[2]

\* -------------------------------------------- ADK planner: whole sequence
\* the nodes of the graph a node lists as dependencies
AdkDependencies(node) ==
    {adk_graph[node].dependencies[k] :
         k \in 1..Len(adk_graph[node].dependencies)} \cap DOMAIN adk_graph

\* the nodes reached from a node by at most n dependency steps
RECURSIVE AdkReached(_, _)
AdkReached(nodes, n) ==
    IF n = 0 THEN nodes
    ELSE AdkReached(nodes \cup UNION {AdkDependencies(m) : m \in nodes}, n - 1)

AdkAcyclic ==
    \A node \in DOMAIN adk_graph :
        node \notin AdkReached(AdkDependencies(node), Cardinality(DOMAIN adk_graph))

AdkPosition(node) == CHOOSE i \in 1..Len(adk_result) : adk_result[i] = node

\* C23: for features without a dependency cycle the recommended sequence holds
\* every feature id exactly once, each after the listed features it depends
\* on; dependencies may name features that are not listed or repeat a name.
C23_SequenceCompleteAndOrdered ==
    apc = "done" /\ AdkAcyclic =>
        /\ \A node \in DOMAIN adk_graph :
              Cardinality({i \in 1..Len(adk_result) : adk_result[i] = node}) = 1
        /\ \A node \in DOMAIN adk_graph :
              \A d \in AdkDependencies(node) :
                  AdkPosition(d) < AdkPosition(node)

\* ------------------------------------------- ADK planner: cycle detection
\* C24: _detect_circular_dependencies never raises, and the list it returns
\* is empty exactly when the graph has no directed cycle among its nodes.
C24_DetectsCyclesWithoutRaising ==
    apc # "input" =>
        /\ apc # "error"
        /\ circular_dependencies = <<>> <=> AdkAcyclic

\* -------------------------------------------------------------- TaskSequence
Created == spc # "input"

SequenceIds == {sequence.tasks[i].id : i \in 1..Len(sequence.tasks)}

Prerequisites(i) ==
    {sequence.tasks[i].prerequisites[k] :
         k \in 1..Len(sequence.tasks[i].prerequisites)}

\* the tasks reached from a set of tasks by at most n prerequisite steps
RECURSIVE Required(_, _)
Required(ids, n) ==
    IF n = 0 THEN ids
    ELSE Required(ids \cup UNION {Prerequisites(i) :
                                      i \in {j \in 1..Len(sequence.tasks) :
                                                sequence.tasks[j].id \in ids}},
                  n - 1)

SequenceAcyclic ==
    \A i \in 1..Len(sequence.tasks) :
        sequence.tasks[i].id \notin Required(Prerequisites(i), Len(sequence.tasks))

OrderPosition(id) ==
    CHOOSE p \in 1..Len(sequence.execution_order) :
        sequence.execution_order[p] = id

\* C25: after create_from_ai_result, execution_order lists every task id
\* exactly once and places each task after all of its prerequisites, when the
\* dependencies are acyclic.
C25_ExecutionOrderRespectsPrerequisites ==
    Created /\ SequenceAcyclic =>
        /\ \A id \in SequenceIds :
              Cardinality({p \in 1..Len(sequence.execution_order) :
                              sequence.execution_order[p] = id}) = 1
        /\ Len(sequence.execution_order) = Len(sequence.tasks)
        /\ \A i \in 1..Len(sequence.tasks) :
              \A prereq \in Prerequisites(i) :
                  OrderPosition(prereq) < OrderPosition(sequence.tasks[i].id)


\* every task get_next_tasks returned is incomplete and has all of its
\* prerequisites completed
OfferedTasksReady ==
    spc = "offered" =>
        \A k \in 1..Len(next_tasks) :
            /\ next_tasks[k].id \notin completed_task_ids
            /\ prerequisites_completed(next_tasks[k], completed_task_ids)

AllCompleted == Created /\ SequenceIds \subseteq completed_task_ids

\* C26: for a sequence with acyclic prerequisites, a caller who keeps
\* completing a task returned by get_next_tasks is never given a task that is
\* completed or has an incomplete prerequisite, and completes every task.
C26_NextTasksSafeAndLive ==
    /\ [](SequenceAcyclic => OfferedTasksReady)
    /\ (Created /\ SequenceAcyclic) ~> AllCompleted

C26_Witness ==
    /\ AllCompleted
    /\ SequenceAcyclic
    /\ Len(sequence.tasks) = 3
    /\ Prerequisites(1) = {Uuid(2), Uuid(3)}
    /\ Prerequisites(2) = {Uuid(3)}

\* ----------------------------------------------- cycle resolution: frame
\* the working graph before the k-th removal
GraphBefore(k) ==
    [dependency_graph EXCEPT !.adj =
        [n \in DOMAIN @ |->
            @[n] \ {removed_edges[j][2] :
                        j \in {i \in 1..(k - 1) : removed_edges[i][1] = n}}]]

\* the edge lies on a directed cycle of g
OnCycle(g, e) ==
    \/ e[1] = e[2]
    \/ e[2] \in DOMAIN g.adj /\ e[1] \in Descendants(g, e[2])

C28_CallerGraphUnchanged ==
    Resolving =>
        /\ dependency_graph = build_dependency_graph(prd_features)
        /\ working_graph.keys = dependency_graph.keys
        /\ DOMAIN working_graph.adj = DOMAIN dependency_graph.adj
        /\ Edges(working_graph) \subseteq Edges(dependency_graph)
        /\ Edges(dependency_graph) \ Edges(working_graph) = Range(removed_edges)

C28_Witness ==
    /\ pc = "tasks"
    /\ Len(removed_edges) = 2
    /\ removed_edges[1][1] = removed_edges[2][1]
    /\ Cardinality(Edges(working_graph)) = 1

\* ----------------------------------------- renderer: the caller's context
\* C29: generate_task_template leaves the caller's additional_context as it
\* was, so every task rendered with a shared extra-context object gets the
\* output it gets when it is rendered alone with that context.
C29_SharedContextUnchanged ==
    renders > 0 =>
        /\ caller_context = original_context
        /\ shared_rendered = alone_rendered

\* ------------------------------------------------------------------- phases
\* the phases that hold a feature of that name
PhasesOf(name) ==
    {p \in 1..Len(phases) : \E k \in 1..Len(phases[p]) : phases[p][k].name = name}

PhasesSound ==
    /\ \A p \in 1..Len(phases) : phases[p] # <<>>
    /\ \A p \in 1..Len(phases) : \A k \in 1..Len(phases[p]) :
          LET feature == phases[p][k] IN
          IF feature.name \in forced_features
          THEN phases[p] = <<feature>>
          ELSE \A d \in 1..Len(feature.dependencies) :
                  \E q \in PhasesOf(feature.dependencies[d]) : q <= p

PhasesComplete ==
    ppc = "done" =>
        \A i \in 1..Len(phase_features) :
            /\ Cardinality(PhasesOf(phase_features[i].name)) = 1
            /\ \A p \in PhasesOf(phase_features[i].name) :
                  Cardinality({k \in 1..Len(phases[p]) :
                                  phases[p][k] = phase_features[i]}) = 1

\* C30: _organize_features_into_phases terminates, puts every feature into
\* exactly one phase, builds no empty phase, and places a feature only when
\* everything it depends on is in the same or an earlier phase, except the
\* one feature added alone to break a deadlock.
C30_PhasesTerminateAndRespectDependencies ==
    /\ [](PhasesSound /\ PhasesComplete)
    /\ (ppc = "organizing") ~> (ppc = "done")

C30_Witness ==
    /\ ppc = "done"
    /\ Len(phases) = 2
    /\ Len(phases[2]) = 2
    /\ forced_features = {phases[1][1].name}
    /\ phases[2][1].dependencies # <<>>
    /\ Len(phases[1][1].requirements) < Len(phases[2][1].requirements)

=============================================================================
